---- MODULE Spec2Model ----
(***************************************************************************)
(* Model of the tree-aggregation engine of ia-fil-toolbox:                 *)
(*   shared.list_files_with_cids (the recursive walk),                     *)
(*   merge_roots_cmd.merge_root_cids (the multi-root merge),               *)
(*   shared.create_directory_via_mfs (the directory builder).              *)
(*                                                                         *)
(* Conventions.  An entry name is a small natural number (the store lists  *)
(* entries sorted by name).  A path is the sequence of the names from the  *)
(* root to the entry: <<1, 2>> stands for the string "1/2".  A Python dict *)
(* is the sequence of its <<key, value>> items in insertion order.  A      *)
(* content address is the content it names (a file's id, a directory's     *)
(* set of links), so equal content has equal address.                      *)
(***************************************************************************)
EXTENDS Integers, Sequences, FiniteSets, TLC

\* ------------------------------------------------------------ bounds
NumNames == 2
NumFiles == 2
MaxDepth == 2
MaxEntries == 3
MaxKnown == 2
MaxFaults == 1
MaxRoots == 2

\* ------------------------------------------------------------ values
Names == 1..NumNames

FileCid(i) == [kind |-> "file", id |-> i, links |-> {}]

DirCid(links) == [kind |-> "dir", id |-> 0, links |-> links]

EmptyDir == DirCid({})

NoValue == [kind |-> "none", id |-> 0, links |-> {}]

\* ------------------------------------------------------------ Python dict
DictKeys(d) == {d[i][1] : i \in 1..Len(d)}

DictHas(d, k) == \E i \in 1..Len(d) : d[i][1] = k

DictGet(d, k) == d[CHOOSE i \in 1..Len(d) : d[i][1] = k][2]

\* d[k] = v : an existing key keeps its position, a new key is appended
DictSet(d, k, v) ==
    IF DictHas(d, k)
    THEN [i \in 1..Len(d) |-> IF d[i][1] = k THEN <<k, v>> ELSE d[i]]
    ELSE Append(d, <<k, v>>)

RECURSIVE DictUpdate(_, _)
\* d.update(e)
DictUpdate(d, e) ==
    IF e = <<>> THEN d
    ELSE DictUpdate(DictSet(d, Head(e)[1], Head(e)[2]), Tail(e))

\* the mapping a dict denotes, order forgotten
AsMap(d) == {<<d[i][1], d[i][2]>> : i \in 1..Len(d)}

\* ------------------------------------------------------------ the store
\* A fault is <<call, outcome>>: the call it hits and what the store does.
\* A call of the walk is <<kind, path>>: "list" is the 30 s listing of the
\* directory at path (<<>> is the root), "probe" the 10 s type check of the
\* entry at path.
FaultOutcome(faults, call) ==
    IF <<call, "timeout">> \in faults THEN "timeout"
    ELSE IF <<call, "fail">> \in faults THEN "fail"
    ELSE "ok"

RECURSIVE SortedLinks(_)
\* the lines of `ipfs ls`, one <<item_cid, item_name>> per link, by name
SortedLinks(links) ==
    IF links = {} THEN <<>>
    ELSE LET first == CHOOSE e \in links : \A o \in links : e[1] <= o[1]
         IN  <<<<first[2], first[1]>>>> \o SortedLinks(links \ {first})

\* run_ipfs_cmd(['ls', '--resolve-type=false', '--size=false', cid], timeout=..)
run_ipfs_ls(cid, call, faults) ==
    CASE FaultOutcome(faults, call) = "timeout" ->
            [exc |-> "TimeoutExpired", returncode |-> 0, stdout |-> <<>>]
      [] FaultOutcome(faults, call) = "fail" ->
            [exc |-> "none", returncode |-> 1, stdout |-> <<>>]
      [] OTHER ->
            [exc |-> "none", returncode |-> 0, stdout |-> SortedLinks(cid.links)]

\* ------------------------------------------------------------ the walk
\* a walk that forgets the prefix of the directory it is in
FullPath_DropPrefix(path_prefix, item_name) == <<item_name>>

\* full_path = f"{path_prefix}{item_name}" if path_prefix else item_name
FullPath(path_prefix, item_name) == Append(path_prefix, item_name)

\* a walk that trusts known_files at the top level only
IsKnownFile_TopLevelOnly(known_files, full_path) ==
    known_files # {} /\ Len(full_path) = 1 /\ full_path \in known_files

\* known_files and full_path in known_files
IsKnownFile(known_files, full_path) ==
    known_files # {} /\ full_path \in known_files

\* subdir_result.returncode == 0 and subdir_result.stdout.strip()
IsDirectoryListing(subdir_result) ==
    subdir_result.returncode = 0 /\ subdir_result.stdout # <<>>

\* a walk that does not look at the return code of the listing
ListFailed_Unchecked(result) == FALSE

\* result.returncode != 0
ListFailed(result) == result.returncode # 0

RECURSIVE walk_directory(_, _, _, _)
RECURSIVE WalkLines(_, _, _, _, _, _)

\* The for loop of walk_directory over the lines of the listing, from line i
\* on; acc is [files, calls, stderr] so far.
WalkLines(lines, i, path_prefix, known_files, faults, acc) ==
    IF i > Len(lines) THEN acc
    ELSE
      LET item_cid  == lines[i][1]
          item_name == lines[i][2]
          full_path == FullPath(path_prefix, item_name)
          probe     == <<"probe", full_path>>
          subdir_result == run_ipfs_ls(item_cid, probe, faults)
          asFile(a) == [a EXCEPT !.files = DictSet(@, full_path, item_cid)]
          probed    == [acc EXCEPT !.calls = Append(@, probe)]
          subdir    == walk_directory(item_cid, full_path, known_files, faults)
          next ==
            IF IsKnownFile(known_files, full_path) THEN asFile(acc)
            ELSE IF subdir_result.exc = "TimeoutExpired" THEN asFile(probed)
            ELSE IF IsDirectoryListing(subdir_result)
                 THEN [files  |-> DictUpdate(probed.files, subdir.files),
                       calls  |-> probed.calls \o subdir.calls,
                       stderr |-> probed.stderr \o subdir.stderr]
                 ELSE asFile(probed)
      IN WalkLines(lines, i + 1, path_prefix, known_files, faults, next)

walk_directory(dir_cid, path_prefix, known_files, faults) ==
    LET call   == <<"list", path_prefix>>
        result == run_ipfs_ls(dir_cid, call, faults)
    IN  IF result.exc = "TimeoutExpired"
        THEN [files |-> <<>>, calls |-> <<call>>,
              stderr |-> <<<<"Timeout listing", path_prefix>>>>]
        ELSE IF ListFailed(result)
        THEN [files |-> <<>>, calls |-> <<call>>,
              stderr |-> <<<<"Failed to list", path_prefix>>>>]
        ELSE WalkLines(result.stdout, 1, path_prefix, known_files, faults,
                       [files |-> <<>>, calls |-> <<call>>, stderr |-> <<>>])

list_files_with_cids(cid, known_files, faults) ==
    walk_directory(cid, <<>>, known_files, faults)

\* ------------------------------------------------------------ the builder
MFS_FLUSH_LIMIT == 1024

\* A call of the builder is <<op, key>>: <<"mkdir", <<>>>>, <<"cp", filename>>,
\* <<"flush", filename>> (the intermediate flush after the copy of filename),
\* <<"flush", <<>>>> (the final flush), <<"stat", <<>>>>, <<"rm", <<>>>>.
CmdFailed(faults, call) == FaultOutcome(faults, call) # "ok"

RECURSIVE MfsInsert(_, _, _)
\* The staging directory after linking cid at path, creating the missing
\* parent directories; not ok when the name is taken or a parent is a file.
MfsInsert(dir, path, cid) ==
    LET n     == path[1]
        old   == {l \in dir.links : l[1] = n}
        child == (CHOOSE l \in old : TRUE)[2]
        sub   == MfsInsert(IF old = {} THEN DirCid({}) ELSE child, Tail(path), cid)
    IN  IF Len(path) = 1
        THEN IF old = {}
             THEN [ok |-> TRUE, dir |-> DirCid(dir.links \cup {<<n, cid>>})]
             ELSE [ok |-> FALSE, dir |-> dir]
        ELSE IF old # {} /\ child.kind # "dir"
             THEN [ok |-> FALSE, dir |-> dir]
             ELSE IF sub.ok
                  THEN [ok |-> TRUE,
                        dir |-> DirCid((dir.links \ old) \cup {<<n, sub.dir>>})]
                  ELSE [ok |-> FALSE, dir |-> dir]

\* a copy without --parents: it fails when the parent directory is missing
mfs_cp_NoParents(staging, filename, file_cid) ==
    IF Len(filename) > 1 /\ {l \in staging.links : l[1] = filename[1]} = {}
    THEN [ok |-> FALSE, dir |-> staging]
    ELSE MfsInsert(staging, filename, file_cid)

\* run_ipfs_cmd(['files', 'cp', '--flush=false', '--parents',
\*               f'/ipfs/{file_cid}', f'{mfs_path}/{filename}'])
mfs_cp(staging, filename, file_cid) == MfsInsert(staging, filename, file_cid)

RECURSIVE CopyItems(_, _, _, _)
\* The for loop of create_directory_via_mfs over files_dict.items(), from
\* item i on; st is [staging, operation_count, calls, stderr] so far.
CopyItems(files, i, faults, st) ==
    IF i > Len(files) THEN st
    ELSE
      LET filename == files[i][1]
          file_cid == files[i][2]
          cp       == <<"cp", filename>>
          flush    == <<"flush", filename>>
          result   == mfs_cp(st.staging, filename, file_cid)
          failed   == CmdFailed(faults, cp) \/ ~result.ok
          count    == st.operation_count + 1
          flushes  == count >= MFS_FLUSH_LIMIT - 1
          next ==
            IF failed
            THEN [st EXCEPT !.calls = Append(@, cp),
                            !.stderr = Append(@, <<"Failed to add", filename>>)]
            ELSE [staging |-> result.dir,
                  operation_count |-> IF flushes THEN 0 ELSE count,
                  calls |-> IF flushes THEN st.calls \o <<cp, flush>>
                            ELSE Append(st.calls, cp),
                  stderr |-> IF flushes /\ CmdFailed(faults, flush)
                             THEN Append(st.stderr, <<"Failed to flush", filename>>)
                             ELSE st.stderr]
      IN CopyItems(files, i + 1, faults, next)

\* a builder that removes the staging area only when it returns an address
\* and takes a failed final flush for a failed build
create_directory_via_mfs_NoFinally(files, faults) ==
    LET st == CopyItems(files, 1, faults,
                        [staging |-> DirCid({}), operation_count |-> 0,
                         calls |-> <<<<"mkdir", <<>>>>>>, stderr |-> <<>>])
    IN  IF CmdFailed(faults, <<"mkdir", <<>>>>)
        THEN [exc |-> "RuntimeError", value |-> NoValue,
              calls |-> <<<<"mkdir", <<>>>>>>, stderr |-> <<>>]
        ELSE IF CmdFailed(faults, <<"flush", <<>>>>)
        THEN [exc |-> "RuntimeError", value |-> NoValue,
              calls |-> st.calls \o <<<<"flush", <<>>>>>>, stderr |-> st.stderr]
        ELSE IF CmdFailed(faults, <<"stat", <<>>>>)
        THEN [exc |-> "RuntimeError", value |-> NoValue,
              calls |-> st.calls \o <<<<"flush", <<>>>>, <<"stat", <<>>>>>>,
              stderr |-> st.stderr]
        ELSE [exc |-> "none", value |-> st.staging,
              calls |-> st.calls \o <<<<"flush", <<>>>>, <<"stat", <<>>>>, <<"rm", <<>>>>>>,
              stderr |-> st.stderr]

\* a builder that loses the copies when the final flush fails
create_directory_via_mfs_FlushLoses(files, faults) ==
    LET st == CopyItems(files, 1, faults,
                        [staging |-> DirCid({}), operation_count |-> 0,
                         calls |-> <<<<"mkdir", <<>>>>>>, stderr |-> <<>>])
    IN  IF CmdFailed(faults, <<"mkdir", <<>>>>) \/ CmdFailed(faults, <<"stat", <<>>>>)
        THEN [exc |-> "RuntimeError", value |-> NoValue,
              calls |-> <<<<"mkdir", <<>>>>, <<"rm", <<>>>>>>, stderr |-> <<>>]
        ELSE [exc |-> "none",
              value |-> IF CmdFailed(faults, <<"flush", <<>>>>) THEN DirCid({})
                        ELSE st.staging,
              calls |-> st.calls \o <<<<"flush", <<>>>>, <<"stat", <<>>>>, <<"rm", <<>>>>>>,
              stderr |-> st.stderr]

create_directory_via_mfs(files, faults) ==
    LET mkdir == <<"mkdir", <<>>>>
        flush == <<"flush", <<>>>>
        stat  == <<"stat", <<>>>>
        rm    == <<"rm", <<>>>>
        st    == CopyItems(files, 1, faults,
                           [staging |-> DirCid({}), operation_count |-> 0,
                            calls |-> <<mkdir>>, stderr |-> <<>>])
        warn  == IF CmdFailed(faults, flush)
                 THEN Append(st.stderr, <<"Failed to flush", <<>>>>)
                 ELSE st.stderr
    IN  IF CmdFailed(faults, mkdir)
        THEN [exc |-> "RuntimeError", value |-> NoValue,
              calls |-> <<mkdir, rm>>, stderr |-> <<>>]
        ELSE IF CmdFailed(faults, stat)
        THEN [exc |-> "RuntimeError", value |-> NoValue,
              calls |-> st.calls \o <<flush, stat, rm>>, stderr |-> warn]
        ELSE [exc |-> "none", value |-> st.staging,
              calls |-> st.calls \o <<flush, stat, rm>>, stderr |-> warn]

\* ------------------------------------------------------------ the merge
\* the parameters of list_files_with_cids(cid, known_files=None)
list_files_with_cids_params == {"cid", "known_files"}

\* A Python call list_files_with_cids(cid, **keywords): a keyword that names
\* no parameter raises TypeError before the body runs.
call_list_files_with_cids(cid, keywords, faults) ==
    IF keywords \subseteq list_files_with_cids_params
    THEN [exc |-> "none"] @@ list_files_with_cids(cid, {}, faults)
    ELSE [exc |-> "TypeError", files |-> <<>>, calls |-> <<>>, stderr |-> <<>>]

\* the "*" of an error line that names no item
Star == <<0>>

\* log_errors(errors): append the lines to the error log
log_errors(log, errors) == log \o errors

RECURSIVE CheckConflicts(_, _, _, _)
\* The for loop of merge_root_cids over files_with_cids.items() of the root
\* cid, from item i on; st is [all_files, conflicted_files, errors, stderr].
CheckConflicts(cid, files_with_cids, i, st) ==
    IF i > Len(files_with_cids) THEN st
    ELSE
      LET filename == files_with_cids[i][1]
          file_cid == files_with_cids[i][2]
          next ==
            IF DictHas(st.all_files, filename)
            THEN IF DictGet(st.all_files, filename) # file_cid
                 THEN [st EXCEPT
                         !.conflicted_files = @ \cup {filename},
                         !.errors = Append(@, [cid |-> cid, item |-> filename,
                                               kind |-> "DATA_ERROR"]),
                         !.stderr = Append(@, <<"Conflict", filename>>)]
                 ELSE [st EXCEPT !.stderr = Append(@, <<"duplicate, same CID", filename>>)]
            ELSE [st EXCEPT !.all_files = DictSet(@, filename, file_cid)]
      IN CheckConflicts(cid, files_with_cids, i + 1, next)

RECURSIVE CollectRoots(_, _, _, _)

\* The body of the loop over cids once the walk of root i has returned r:
\* `if not files_with_cids` logs an IPFS_ERROR and continues, otherwise the
\* files of the root are checked for conflicts.
AfterWalk(roots, i, faults, st, r) ==
    LET cid == roots[i] IN
    IF r.files = <<>>
    THEN CollectRoots(roots, i + 1, faults,
           [st EXCEPT !.calls = @ \o r.calls,
                      !.stderr = @ \o r.stderr,
                      !.errors = Append(@, [cid |-> cid, item |-> Star,
                                            kind |-> "IPFS_ERROR"])])
    ELSE CollectRoots(roots, i + 1, faults,
           [exc |-> st.exc, calls |-> st.calls \o r.calls] @@
           CheckConflicts(cid, r.files, 1,
             [all_files |-> st.all_files,
              conflicted_files |-> st.conflicted_files,
              errors |-> st.errors,
              stderr |-> st.stderr \o r.stderr \o <<<<"Found files", <<i>>>>>>]))

\* The call of the walk for root i: an exception of the call ends the loop
\* and the function.
WalkRoot(roots, i, faults, st, r) ==
    IF r.exc # "none" THEN [st EXCEPT !.exc = r.exc]
    ELSE AfterWalk(roots, i, faults, st, r)

\* The for loop of merge_root_cids over cids, from root i on; st is
\* [exc, all_files, conflicted_files, errors, stderr, calls] so far.
CollectRoots(roots, i, faults, st) ==
    IF i > Len(roots) THEN st
    ELSE WalkRoot(roots, i, faults,
           [st EXCEPT !.stderr = Append(@, <<"Listing files in", <<i>>>>)],
           call_list_files_with_cids(roots[i], {"force_check_directories"}, faults))

\* for filename in conflicted_files: if filename in all_files: del all_files[filename]
RemoveConflicted(all_files, conflicted_files) ==
    SelectSeq(all_files, LAMBDA item : item[1] \notin conflicted_files)

\* `merged_cid = create_directory_via_mfs(all_files, "merge")` in its try:
\* an exception of the builder is logged and None is returned.
BuildMerged(all_files, log, stderr, calls, b) ==
    IF b.exc # "none"
    THEN [exc |-> "none", value |-> NoValue, exit |-> "build failed",
          handed |-> all_files, built |-> TRUE,
          log |-> log_errors(log, <<[cid |-> Star, item |-> Star,
                                     kind |-> "IPFS_ERROR"]>>),
          stderr |-> stderr \o b.stderr \o <<<<"Error creating merged directory", <<>>>>>>,
          calls |-> calls \o b.calls]
    ELSE [exc |-> "none", value |-> b.value, exit |-> "merged",
          handed |-> all_files, built |-> TRUE, log |-> log,
          stderr |-> stderr \o b.stderr \o <<<<"Created merged directory", <<>>>>>>,
          calls |-> calls \o b.calls]

\* merge_root_cids after the loop over the roots: drop the conflicted
\* files, log the errors, fail when nothing is left, build otherwise.
AfterRoots(st, all_files, faults) ==
    IF all_files = <<>>
    THEN [exc |-> "none", value |-> NoValue, exit |-> "no files found",
          handed |-> <<>>, built |-> FALSE,
          log |-> log_errors(<<>>, st.errors),
          stderr |-> Append(st.stderr, <<"No files found", <<>>>>),
          calls |-> st.calls]
    ELSE BuildMerged(all_files, log_errors(<<>>, st.errors), st.stderr, st.calls,
                     create_directory_via_mfs(all_files, faults))

\* print("Excluded: ...") for every conflicted file deleted from all_files
ExcludedLines(all_files, conflicted_files) ==
    [i \in 1..Cardinality(DictKeys(all_files) \cap conflicted_files) |-> <<"Excluded", <<>>>>]

\* the state of merge_root_cids when the loop over the roots ends
MergeLoopExit(st, faults) ==
    IF st.exc # "none"
    THEN [exc |-> st.exc, value |-> NoValue, exit |-> "raised",
          handed |-> <<>>, built |-> FALSE, log |-> <<>>,
          stderr |-> st.stderr, calls |-> st.calls]
    ELSE AfterRoots([st EXCEPT !.stderr = @ \o ExcludedLines(st.all_files, st.conflicted_files)],
                    RemoveConflicted(st.all_files, st.conflicted_files), faults)

\* The outcome of merge_root_cids(cids, force_check_directories):
\* [exc, value, exit, handed, built, log, stderr, calls], where handed is the
\* mapping given to the builder (built says whether it was called) and log
\* the lines appended to the error log.
merge_root_cids(roots, force, faults) ==
    MergeLoopExit(
        CollectRoots(roots, 1, faults,
            [exc |-> "none", all_files |-> <<>>, conflicted_files |-> {},
             errors |-> <<>>, calls |-> <<>>,
             stderr |-> IF force THEN <<>>
                        ELSE <<<<"Using file extension heuristics", <<>>>>>>]),
        faults)

\* ------------------------------------------------------------ calls without a timeout
\* run_ipfs_cmd passes its keyword arguments to subprocess.run: a call given
\* no timeout returns only when the store answers.  A fault <<call, "hang">>
\* is a store that never answers call.  The index in calls of the first call
\* the store hangs on, 0 when it answers them all:
BlockedAt(calls, faults) ==
    LET hung == {i \in 1..Len(calls) : <<calls[i], "hang">> \in faults}
    IN  IF hung = {} THEN 0 ELSE CHOOSE i \in hung : \A j \in hung : i <= j

\* the call a warning of the builder comes from
WarningCall(line) ==
    <<IF line[1] = "Failed to add" THEN "cp" ELSE "flush", line[2]>>

\* what the builder has printed when the call of index h does not return
StderrBefore(calls, lines, h) ==
    SelectSeq(lines, LAMBDA line :
        \E i \in 1..(h - 1) : calls[i] = WarningCall(line))

\* ------------------------------------------------------------ the archive
\* `car put-block --codec=dag-pb` prints the address it has written the
\* block under.  A fault <<put, "mismatch">> is a block whose address under
\* that codec is not the one it was fetched with.
PutMismatch(faults, put) == <<put, "mismatch">> \in faults

\* the address of the block of cid as the archive tool computes another
Recoded(cid) == [cid EXCEPT !.kind = "recoded"]

\* output_cid = car_result.stdout.decode('utf-8').strip()
OutputCid(cid, put, faults) ==
    IF PutMismatch(faults, put) THEN Recoded(cid) ELSE cid

\* A block of the archive: the address it was fetched with (block), the
\* address the archive holds it under (address), the place of the address
\* in child_cids (i, 0 for the root), and whether it is marked as the root.
WrittenBlock(cid, i, put, faults) ==
    [block |-> cid, address |-> OutputCid(cid, put, faults), i |-> i, root |-> i = 0]

\* an export that follows the links of a child and writes their blocks too
ChildBlock_Deep(child_cid, i, faults, st) ==
    [blocks |-> st.blocks \o <<WrittenBlock(child_cid, i, <<"car put-block", <<i>>>>, faults)>>
                    \o [k \in 1..Cardinality(child_cid.links) |->
                           WrittenBlock(SortedLinks(child_cid.links)[k][1], i,
                                        <<"car put-block", <<i>>>>, faults)],
     calls  |-> st.calls \o <<<<"block get", <<i>>>>>>
                    \o [k \in 1..Cardinality(child_cid.links) |-> <<"block get", <<i, k>>>>],
     stderr |-> st.stderr]

\* The body of the for loop of generate_shallow_car_file over child_cids for
\* child i; st is [blocks, calls, stderr].  The block of a child that cannot
\* be read or written is not written; the address of a block that was
\* written is compared afterwards, and a warning is all a difference gives.
ChildBlock(child_cid, i, faults, st) ==
    IF CmdFailed(faults, <<"block get", <<i>>>>)
    THEN [st EXCEPT !.calls = Append(@, <<"block get", <<i>>>>),
                    !.stderr = Append(@, <<"Failed to get block", <<i>>>>)]
    ELSE IF CmdFailed(faults, <<"car put-block", <<i>>>>)
    THEN [st EXCEPT !.calls = Append(@, <<"block get", <<i>>>>),
                    !.stderr = Append(@, <<"Failed to add block", <<i>>>>)]
    ELSE [blocks |-> Append(st.blocks,
                            WrittenBlock(child_cid, i, <<"car put-block", <<i>>>>, faults)),
          calls  |-> Append(st.calls, <<"block get", <<i>>>>),
          stderr |-> IF PutMismatch(faults, <<"car put-block", <<i>>>>)
                     THEN Append(st.stderr, <<"CID mismatch for child", <<i>>>>)
                     ELSE st.stderr]

RECURSIVE AppendChildBlocks(_, _, _, _)
\* the for loop of generate_shallow_car_file over child_cids, from child i on
AppendChildBlocks(child_cids, i, faults, st) ==
    IF i > Len(child_cids) THEN st
    ELSE AppendChildBlocks(child_cids, i + 1, faults,
                           ChildBlock(child_cids[i], i, faults, st))

\* generate_shallow_car_file(root_cid, child_cids, output_path):
\* [ok, blocks, calls, stderr], blocks being the blocks of the archive in
\* order and calls the store commands (`car put-block` is a local tool).
generate_shallow_car_file(root_cid, child_cids, faults) ==
    LET get == <<"block get", <<0>>>>
        put == <<"car put-block", <<0>>>>
    IN  IF CmdFailed(faults, get)
        THEN [ok |-> FALSE, blocks |-> <<>>, calls |-> <<get>>,
              stderr |-> <<<<"Failed to get root block", <<>>>>>>]
        ELSE IF CmdFailed(faults, put)
        THEN [ok |-> FALSE, blocks |-> <<>>, calls |-> <<get>>,
              stderr |-> <<<<"Failed to create CAR with root block", <<>>>>>>]
        ELSE IF PutMismatch(faults, put)
        THEN [ok |-> FALSE, blocks |-> <<WrittenBlock(root_cid, 0, put, faults)>>,
              calls |-> <<get>>, stderr |-> <<<<"CID mismatch", <<>>>>>>]
        ELSE [ok |-> TRUE] @@
             AppendChildBlocks(child_cids, 1, faults,
                 [blocks |-> <<WrittenBlock(root_cid, 0, put, faults)>>,
                  calls |-> <<get>>, stderr |-> <<>>])

\* ------------------------------------------------------------ collect
\* The addresses given to collect: a file, a directory with a file in it,
\* an empty directory.
CollectPool == <<FileCid(1), DirCid({<<1, FileCid(1)>>}), DirCid({})>>

\* The string of an address, as an entry name: a name no ordinary entry has,
\* different for every address.
CidString(cid) ==
    <<NumNames + (CHOOSE i \in 1..Len(CollectPool) : CollectPool[i] = cid)>>

\* a collect that names every entry after its address
NamesGet_AddressOnly(names, cid) == CidString(cid)

\* names.get(cid, cid)
NamesGet(names, cid) ==
    IF cid \in DOMAIN names THEN names[cid] ELSE CidString(cid)

RECURSIVE CollectEntries(_, _, _, _)
\* {names.get(cid, cid): cid for cid in cids}, from address i on.  A key
\* met again keeps its place in the dict and takes the later address.
CollectEntries(cids, names, i, entries) ==
    IF i > Len(cids) THEN entries
    ELSE CollectEntries(cids, names, i + 1,
            DictSet(entries, NamesGet(names, cids[i]), cids[i]))

\* the dict comprehension without names: {cid: cid for cid in cids}
CollectEntriesUnnamed(cids) == CollectEntries(cids, <<>>, 1, <<>>)

\* print("Warning: duplicate names detected ...") when len(entries) != len(cids)
CollectHead(cids, entries) ==
    IF Len(entries) # Len(cids)
    THEN <<<<"Collecting", <<>>>>, <<"Warning: duplicate names detected", <<>>>>>>
    ELSE <<<<"Collecting", <<>>>>>>

\* collect_cids once the builder has ended with b: the address, or None
\* (NoValue) when the builder raised
CollectBuilt(entries, head, b) ==
    [value   |-> b.value,
     entries |-> entries,
     calls   |-> b.calls,
     head    |-> head,
     built   |-> b.stderr,
     stderr  |-> head \o b.stderr \o
                 <<<<IF b.exc = "none" THEN "Created collection"
                     ELSE "Error creating collection", <<>>>>>>]

\* a collect that lists what is below its first address before it builds
CollectBuild_Walking(cids, entries, faults) ==
    [CollectBuilt(entries, CollectHead(cids, entries),
                  create_directory_via_mfs(entries, faults))
        EXCEPT !.calls = list_files_with_cids(cids[1], {}, faults).calls \o @]

\* the try of collect_cids: create_directory_via_mfs(entries, "collect")
CollectBuild(cids, entries, faults) ==
    CollectBuilt(entries, CollectHead(cids, entries),
                 create_directory_via_mfs(entries, faults))

\* collect_cids(cids, names): [value, entries, calls, head, built, stderr]
collect_cids(cids, names, faults) ==
    IF DOMAIN names # {}
    THEN CollectBuild(cids, CollectEntries(cids, names, 1, <<>>), faults)
    ELSE CollectBuild(cids, CollectEntriesUnnamed(cids), faults)

\* run_collect with the address c.value: print it and write the archive of
\* its root block, the input addresses being children that are not fetched
CollectPrinted(c, top, car) ==
    [exit |-> "printed", value |-> c.value, entries |-> c.entries,
     calls |-> c.calls \o car.calls, head |-> top \o c.head,
     built |-> c.built, stderr |-> top \o c.stderr \o car.stderr]

\* run_collect once collect_cids has returned c
CollectExit(c, top, faults) ==
    IF c.value # NoValue
    THEN CollectPrinted(c, top, generate_shallow_car_file(c.value, <<>>, faults))
    ELSE [exit |-> "exit 1", value |-> NoValue, entries |-> c.entries,
          calls |-> c.calls, head |-> top \o c.head, built |-> c.built,
          stderr |-> Append(top \o c.stderr,
                            <<"Error: Failed to create collection", <<>>>>)]

\* run_collect(cids, names): [exit, value, entries, calls, head, built,
\* stderr], exit being "no cids" (return), "printed" (the address is printed
\* and the archive of its root block written) or "exit 1".
run_collect(cids, names, faults) ==
    IF cids = <<>>
    THEN [exit |-> "no cids", value |-> NoValue, entries |-> <<>>,
          calls |-> <<>>, head |-> <<>>, built |-> <<>>,
          stderr |-> <<<<"Error: No CIDs provided", <<>>>>>>]
    ELSE CollectExit(collect_cids(cids, names, faults),
                     <<<<"Starting collect", <<>>>>>>, faults)

\* ------------------------------------------------------------ manifests
NumIds == 2

\* An identifier is a number of 1..NumIds.  The names of its two manifests
\* come after the ordinary names: "<identifier>_meta.xml" is
\* NumNames + 2 * identifier - 1 and "<identifier>_files.xml" the next one.
\* f"{identifier}_{xml_type}.xml"
XmlName(identifier, xml_type) ==
    NumNames + 2 * identifier - (IF xml_type = "meta" THEN 1 ELSE 0)

\* f.endswith('_meta.xml')
IsMetaFile(f) == f > NumNames /\ (f - NumNames) % 2 = 1

\* f.endswith('_files.xml')
IsFilesFile(f) == f > NumNames /\ (f - NumNames) % 2 = 0

\* f.replace('_meta.xml', ''), f.replace('_files.xml', '')
IdentifierOf(f) == (f - NumNames + 1) \div 2

\* The documents a manifest file can hold: bytes that are empty, bytes that
\* are not XML, or a list of <file name="..."> entries (<<>> is an entry
\* without a name, <<1, 1>> the name "1/1").
Docs ==
    << [xml |-> "ok", names |-> <<>>],
       [xml |-> "ok", names |-> <<<<1>>>>],
       [xml |-> "ok", names |-> <<<<1>>, <<2>>>>],
       [xml |-> "ok", names |-> <<<<1, 1>>, <<>>>>],
       [xml |-> "malformed", names |-> <<>>],
       [xml |-> "empty", names |-> <<>>] >>

\* the address of the file that holds Docs[k]
ManifestCid(k) == FileCid(NumFiles + k)

\* the bytes of a file: those of an ordinary file are not XML
Content(cid) ==
    IF cid.id > NumFiles THEN Docs[cid.id - NumFiles]
    ELSE [xml |-> "malformed", names |-> <<>>]

\* run_ipfs_cmd(['cat', file_cid], capture_output=True): `ipfs cat` of a
\* directory fails
run_ipfs_cat(file_cid, call, faults) ==
    IF CmdFailed(faults, call) \/ file_cid.kind # "file"
    THEN [returncode |-> 1, stdout |-> [xml |-> "empty", names |-> <<>>]]
    ELSE [returncode |-> 0, stdout |-> Content(file_cid)]

\* list_files(cid): the names of the entries of cid, [] when the listing
\* fails; [out, calls, stderr]
list_files(cid, faults) ==
    IF CmdFailed(faults, <<"list_files", <<>>>>)
    THEN [out |-> <<>>, calls |-> <<<<"list_files", <<>>>>>>,
          stderr |-> <<<<"Failed to list", <<>>>>>>]
    ELSE [out |-> [i \in 1..Cardinality(cid.links) |-> SortedLinks(cid.links)[i][2]],
          calls |-> <<<<"list_files", <<>>>>>>, stderr |-> <<>>]

\* a line of the error log: source address, item, error kind, message
ErrorLine(cid, item, kind, what) ==
    [cid |-> cid, item |-> item, kind |-> kind, what |-> what]

\* a validation that asks for the files manifest only
MissingTypes_FilesOnly(required_types, available_types) ==
    (required_types \cap {"files"}) \ available_types

\* missing_types = required_types - available_types
MissingTypes(required_types, available_types) ==
    required_types \ available_types

RECURSIVE ValidateFrom(_, _, _, _, _, _)
\* The for loop of validate_xml_completeness over identifiers, from
\* identifier i on; st is [valid, errors].
ValidateFrom(cid, ids, i, xml_results, required_types, st) ==
    IF i > Len(ids) THEN st
    ELSE
      LET identifier == ids[i]
          next ==
            IF ~DictHas(xml_results, identifier)
            THEN [st EXCEPT !.errors = Append(@,
                     ErrorLine(cid, <<identifier>>, "DATA_ERROR",
                               <<"No XML files found for identifier", <<>>>>))]
            ELSE IF MissingTypes(required_types,
                                 DictKeys(DictGet(xml_results, identifier))) # {}
            THEN [st EXCEPT !.errors = Append(@,
                     ErrorLine(cid, <<identifier>>, "DATA_ERROR",
                               <<"Missing XML files", <<>>>>))]
            ELSE [st EXCEPT !.valid = Append(@, identifier)]
      IN ValidateFrom(cid, ids, i + 1, xml_results, required_types, next)

\* validate_xml_completeness(cid, identifiers, results, required_types):
\* [valid, errors], errors being the lines given to log_errors
validate_xml_completeness(cid, ids, xml_results, required_types) ==
    ValidateFrom(cid, ids, 1, xml_results, required_types,
                 [valid |-> <<>>, errors |-> <<>>])

\* parse_files_xml(xml_content): the names of the <file> entries, '' (<<>>)
\* for an entry without a name; xml_to_dict raises XMLSyntaxError on bytes
\* that are not a document
parse_files_xml(xml_content) ==
    IF xml_content.xml = "ok"
    THEN [exc |-> "none", files_data |-> xml_content.names]
    ELSE [exc |-> "XMLSyntaxError", files_data |-> <<>>]

RECURSIVE ResolveMembers(_, _, _, _, _, _)
\* The for loop of create_synthetic_directory over files_data, from entry i
\* on; st is [links, log]: the members found in available_files, in order,
\* and a DATA_ERROR line for each one that is not.
ResolveMembers(cid, identifier, files_data, i, available_files, st) ==
    IF i > Len(files_data) THEN st
    ELSE
      LET file_name == files_data[i]
          next ==
            IF file_name = <<>> THEN st
            ELSE IF ~DictHas(available_files, file_name)
            THEN [st EXCEPT !.log = Append(@,
                     ErrorLine(cid, <<identifier>>, "DATA_ERROR",
                               <<"File not found in root CID", file_name>>))]
            ELSE [st EXCEPT !.links = Append(@,
                     <<file_name, DictGet(available_files, file_name)>>)]
      IN ResolveMembers(cid, identifier, files_data, i + 1, available_files, next)

\* create_synthetic_directory once the builder has ended with b
SyntheticBuilt(cid, identifier, log, b) ==
    IF b.exc # "none"
    THEN [value |-> NoValue, calls |-> b.calls, stderr |-> b.stderr,
          log |-> Append(log, ErrorLine(cid, <<identifier>>, "IPFS_ERROR",
                                        <<"Error creating synthetic directory", <<>>>>))]
    ELSE [value |-> b.value, calls |-> b.calls, stderr |-> b.stderr, log |-> log]

\* a create_synthetic_directory that gives up when a member is absent
SyntheticFromLinks_AllOrNothing(cid, identifier, r, faults) ==
    IF r.links = <<>> \/ r.log # <<>>
    THEN [value |-> NoValue, calls |-> <<>>, stderr |-> <<>>, log |-> r.log]
    ELSE SyntheticBuilt(cid, identifier, r.log,
                        create_directory_via_mfs(DictUpdate(<<>>, r.links), faults))

\* create_synthetic_directory once its members are resolved: None when
\* there is no link, else the directory built from files_dict, which takes
\* the links in order (files_dict[link["Name"]] = link["Hash"]["/"])
SyntheticFromLinks(cid, identifier, r, faults) ==
    IF r.links = <<>>
    THEN [value |-> NoValue, calls |-> <<>>, stderr |-> <<>>, log |-> r.log]
    ELSE SyntheticBuilt(cid, identifier, r.log,
                        create_directory_via_mfs(DictUpdate(<<>>, r.links), faults))

\* create_synthetic_directory(cid, identifier, files_data, available_files):
\* [value, calls, stderr, log]
create_synthetic_directory(cid, identifier, files_data, available_files, faults) ==
    SyntheticFromLinks(cid, identifier,
        ResolveMembers(cid, identifier, files_data, 1, available_files,
                       [links |-> <<>>, log |-> <<>>]),
        faults)

\* ------------------------------------------------------------ extract-items
\* meta_files + files_files: the names of xml_files that end in _meta.xml or
\* _files.xml
XmlFiles(xml_files) ==
    SelectSeq(xml_files, LAMBDA f : IsMetaFile(f) \/ IsFilesFile(f))

\* all_identifiers = list(meta_identifiers | files_identifiers): the
\* identifiers of the manifests listed, in the order the set gives them,
\* which is that of order, a list of all the identifiers there are
AllIdentifiers(xml_files, order) ==
    SelectSeq(order, LAMBDA identifier :
        \E k \in 1..Len(xml_files) :
            /\ IsMetaFile(xml_files[k]) \/ IsFilesFile(xml_files[k])
            /\ IdentifierOf(xml_files[k]) = identifier)

RECURSIVE XmlFilesWithCids(_, _, _, _)
\* The loop of process_cid_files over the lines of the listing of the root,
\* from line i on: xml_files_with_cids[filename] = file_cid for the names
\* of the manifests.
XmlFilesWithCids(lines, i, xml_files, acc) ==
    IF i > Len(lines) THEN acc
    ELSE XmlFilesWithCids(lines, i + 1, xml_files,
            IF \E k \in 1..Len(xml_files) : xml_files[k] = lines[i][2]
            THEN DictSet(acc, lines[i][2], lines[i][1])
            ELSE acc)

\* The body of the loop over ['meta', 'files'] for one identifier and one
\* xml_type; st is [inner, calls], inner being xml_results[identifier].
FetchXmlType(identifier, xml_type, xml_files_with_cids, faults, st) ==
    LET filename == XmlName(identifier, xml_type)
        cat      == <<"cat", <<filename>>>>
    IN  IF ~DictHas(xml_files_with_cids, filename) THEN st
        ELSE IF run_ipfs_cat(DictGet(xml_files_with_cids, filename), cat, faults).returncode = 0
        THEN [inner |-> DictSet(st.inner, xml_type,
                 run_ipfs_cat(DictGet(xml_files_with_cids, filename), cat, faults).stdout),
              calls |-> Append(st.calls, cat)]
        ELSE [st EXCEPT !.calls = Append(@, cat)]

\* xml_results[identifier] once its two manifests have been tried
FetchBoth(identifier, xml_files_with_cids, faults) ==
    FetchXmlType(identifier, "files", xml_files_with_cids, faults,
        FetchXmlType(identifier, "meta", xml_files_with_cids, faults,
                     [inner |-> <<>>, calls |-> <<>>]))

\* xml_results and the calls so far, with what was fetched for identifier
FetchedOne(identifier, st, both) ==
    [xml_results |-> DictSet(st.xml_results, identifier, both.inner),
     calls |-> st.calls \o both.calls]

RECURSIVE FetchXmlFiles(_, _, _, _, _)
\* The for loop of process_cid_files over all_identifiers that fetches the
\* manifests one after the other, from identifier i on; st is
\* [xml_results, calls].
FetchXmlFiles(ids, i, xml_files_with_cids, faults, st) ==
    IF i > Len(ids) THEN st
    ELSE FetchXmlFiles(ids, i + 1, xml_files_with_cids, faults,
            FetchedOne(ids[i], st, FetchBoth(ids[i], xml_files_with_cids, faults)))

\* the names of the entries of a parsed files.xml that have one
NamedMembers(parsed) ==
    IF parsed.exc # "none" THEN {}
    ELSE {parsed.files_data[k] : k \in 1..Len(parsed.files_data)} \ {<<>>}

\* known_files: the names the files.xml of the valid identifiers declare; a
\* files.xml that does not parse adds none
KnownFiles(valid, xml_results) ==
    UNION {NamedMembers(parse_files_xml(DictGet(DictGet(xml_results, valid[k]), "files")))
              : k \in 1..Len(valid)}

\* the state of the loop over valid_identifiers once the synthetic
\* directory of one of them, s, has been tried
AfterSynthetic(identifier, st, s) ==
    [results |-> IF s.value # NoValue THEN Append(st.results, <<identifier, s.value>>)
                 ELSE st.results,
     log     |-> st.log \o s.log,
     calls   |-> st.calls \o s.calls,
     stderr  |-> st.stderr \o s.stderr]

\* the body of the loop over valid_identifiers for one of them, its
\* files.xml parsed
AfterParse(cid, identifier, parsed, all_files, faults, st) ==
    IF parsed.exc # "none"
    THEN [st EXCEPT !.log = Append(@,
             ErrorLine(cid, <<identifier>>, "DATA_ERROR", <<"XML parse error", <<>>>>))]
    ELSE AfterSynthetic(identifier, st,
             create_synthetic_directory(cid, identifier, parsed.files_data,
                                        all_files, faults))

RECURSIVE ProcessValid(_, _, _, _, _, _, _)
\* The for loop of process_cid_files over valid_identifiers, from identifier
\* i on; st is [results, log, calls, stderr].
ProcessValid(cid, valid, i, xml_results, all_files, faults, st) ==
    IF i > Len(valid) THEN st
    ELSE ProcessValid(cid, valid, i + 1, xml_results, all_files, faults,
            AfterParse(cid, valid[i],
                parse_files_xml(DictGet(DictGet(xml_results, valid[i]), "files")),
                all_files, faults, st))

\* what process_cid_files leaves: the list it returns (value), and what it
\* has computed, logged and issued on the way
FilesExit(value, valid, ids, xml_results, known, log, calls, stderr) ==
    [value |-> value, valid |-> valid, all_identifiers |-> ids,
     xml_results |-> xml_results, known_files |-> known,
     log |-> log, calls |-> calls, stderr |-> stderr]

\* process_cid_files once the loop over valid_identifiers has ended with st
FilesProcessed(v, ids, xml_results, known, st) ==
    FilesExit(st.results, v.valid, ids, xml_results, known,
              st.log, st.calls, st.stderr)

\* process_cid_files once the tree has been walked with known_files (w)
FilesWalked(cid, ids, faults, calls, xml_results, v, known, w) ==
    FilesProcessed(v, ids, xml_results, known,
        ProcessValid(cid, v.valid, 1, xml_results, w.files, faults,
            [results |-> <<>>, log |-> log_errors(<<>>, v.errors),
             calls |-> calls \o w.calls, stderr |-> w.stderr]))

\* process_cid_files once the completeness validation has returned v: with
\* no valid identifier it returns, else it walks the tree
FilesValidated(cid, ids, faults, calls, xml_results, v) ==
    IF v.valid = <<>>
    THEN FilesExit(<<>>, <<>>, ids, xml_results, {},
                   log_errors(<<>>, v.errors), calls, <<>>)
    ELSE FilesWalked(cid, ids, faults, calls, xml_results, v,
             KnownFiles(v.valid, xml_results),
             list_files_with_cids(cid, KnownFiles(v.valid, xml_results), faults))

\* process_cid_files once the manifests have been fetched (f)
FilesFetched(cid, ids, faults, calls, f) ==
    FilesValidated(cid, ids, faults, calls \o f.calls, f.xml_results,
        validate_xml_completeness(cid, ids, f.xml_results, {"meta", "files"}))

\* process_cid_files from its own listing of the root on
FilesRootListed(cid, ids, xml_files, faults, calls) ==
    IF CmdFailed(faults, <<"ls", <<>>>>)
    THEN FilesExit(<<>>, <<>>, ids, <<>>, {},
             <<ErrorLine(cid, Star, "IPFS_ERROR", <<"Failed to list root directory", <<>>>>)>>,
             Append(calls, <<"ls", <<>>>>), <<>>)
    ELSE FilesFetched(cid, ids, faults, Append(calls, <<"ls", <<>>>>),
             FetchXmlFiles(ids, 1,
                 XmlFilesWithCids(SortedLinks(cid.links), 1, xml_files, <<>>),
                 faults, [xml_results |-> <<>>, calls |-> <<>>]))

\* process_cid_files once list_files has returned l
FilesListed(cid, order, faults, l) ==
    IF l.out = <<>>
    THEN FilesExit(<<>>, <<>>, <<>>, <<>>, {},
             <<ErrorLine(cid, Star, "IPFS_ERROR", <<"No files found or failed to list files", <<>>>>)>>,
             l.calls, l.stderr)
    ELSE IF XmlFiles(l.out) = <<>>
    THEN FilesExit(<<>>, <<>>, <<>>, <<>>, {},
             <<ErrorLine(cid, Star, "IPFS_ERROR", <<"No XML files found", <<>>>>)>>,
             l.calls, l.stderr)
    ELSE FilesRootListed(cid, AllIdentifiers(l.out, order), XmlFiles(l.out),
                         faults, l.calls)

\* process_cid_files(cid), order being the order in which Python lists the
\* set of the identifiers
process_cid_files(cid, order, faults) ==
    FilesListed(cid, order, faults, list_files(cid, faults))

\* ------------------------------------------------------------ the parallel fetch
\* ThreadPoolExecutor(max_workers=8)
max_workers == 8

\* the None a task returns for a manifest it could not fetch
NoContent == [xml |-> "none", names |-> <<>>]

\* `if content:`: None is false, and so are bytes that are empty
Truthy(content) == content.xml \notin {"none", "empty"}

\* run_ipfs_cmd itself raises (the command cannot be started)
CmdRaised(faults, call) == <<call, "raise">> \in faults

\* fetch_single_xml(identifier, xml_type): [content, errors, calls], errors
\* being what it appends to the list shared with the main thread
fetch_single_xml(cid, files_with_cids, identifier, xml_type, faults) ==
    LET filename == XmlName(identifier, xml_type)
        cat      == <<"cat", <<filename>>>>
    IN  IF ~DictHas(files_with_cids, <<filename>>)
        THEN [content |-> NoContent, calls |-> <<>>,
              errors |-> <<ErrorLine(cid, <<filename>>, "DATA_ERROR",
                                     <<"File not found in directory", <<>>>>)>>]
        ELSE IF CmdRaised(faults, cat)
        THEN [content |-> NoContent, calls |-> <<cat>>,
              errors |-> <<ErrorLine(cid, <<filename>>, "IPFS_ERROR",
                                     <<"exception", <<>>>>)>>]
        ELSE IF run_ipfs_cat(DictGet(files_with_cids, <<filename>>), cat, faults).returncode # 0
        THEN [content |-> NoContent, calls |-> <<cat>>,
              errors |-> <<ErrorLine(cid, <<filename>>, "IPFS_ERROR",
                                     <<"Failed to fetch", <<>>>>)>>]
        ELSE [content |-> run_ipfs_cat(DictGet(files_with_cids, <<filename>>), cat, faults).stdout,
              calls |-> <<cat>>, errors |-> <<>>]

\* tasks: one (identifier, xml_type) per identifier and kind, the kinds in
\* the order the set gives them (type_order)
Tasks(ids, type_order) ==
    [k \in 1..(Len(ids) * Len(type_order)) |->
        [ident    |-> ids[((k - 1) \div Len(type_order)) + 1],
         xml_type |-> type_order[((k - 1) % Len(type_order)) + 1]]]

\* futures = {executor.submit(fetch_single_xml, ident, xml_type): ...}: every
\* task is queued
Submitted(tasks) ==
    [k \in 1..Len(tasks) |->
        [ident |-> tasks[k].ident, xml_type |-> tasks[k].xml_type,
         state |-> "pending", content |-> NoContent]]

\* results once the main thread has taken the outcome of a task
Collected1(results, ident, xml_type, content) ==
    IF Truthy(content)
    THEN DictSet(results, ident,
             DictSet(IF DictHas(results, ident) THEN DictGet(results, ident) ELSE <<>>,
                     xml_type, content))
    ELSE results

\* ------------------------------------------------------------ metadata
\* the orders in which n tasks can complete
CompletionOrders(n) ==
    {o \in [1..n -> 1..n] : \A i, j \in 1..n : o[i] = o[j] => i = j}

\* results, errors and calls once the task of place i in done_order has run
\* and the main thread has taken its outcome r
FetchedTask(task, st, r) ==
    [results |-> Collected1(st.results, task.ident, task.xml_type, r.content),
     errors  |-> st.errors \o r.errors,
     calls   |-> st.calls \o r.calls]

RECURSIVE FetchTasks(_, _, _, _, _, _, _)
\* The tasks of fetch_xml_files_parallel, run and taken in the order
\* done_order, from place i on; st is [results, errors, calls].
FetchTasks(cid, files_with_cids, tasks, done_order, i, faults, st) ==
    IF i > Len(tasks) THEN st
    ELSE FetchTasks(cid, files_with_cids, tasks, done_order, i + 1, faults,
            FetchedTask(tasks[done_order[i]], st,
                fetch_single_xml(cid, files_with_cids, tasks[done_order[i]].ident,
                                 tasks[done_order[i]].xml_type, faults)))

\* fetch_xml_files_parallel once the tree has been walked (w)
FetchAfterWalk(cid, tasks, done_order, faults, w) ==
    FetchTasks(cid, w.files, tasks, done_order, 1, faults,
               [results |-> <<>>, errors |-> <<>>, calls |-> w.calls])

\* fetch_xml_files_parallel(cid, identifiers, xml_types), its tasks
\* completing in the order done_order: [results, errors, calls]
fetch_xml_files_parallel(cid, tasks, done_order, faults) ==
    FetchAfterWalk(cid, tasks, done_order, faults,
                   list_files_with_cids(cid, {}, faults))

\* SELECT 1 FROM metadata WHERE identifier = ?
InTable(rows, identifier) ==
    \E k \in 1..Len(rows) : rows[k].identifier = identifier

\* a filter that lets every meta file through
filter_existing_meta_files_KeepAll(rows, meta_files) == meta_files

\* filter_existing_meta_files(meta_files): the meta files whose identifier
\* has no row in the table
filter_existing_meta_files(rows, meta_files) ==
    SelectSeq(meta_files, LAMBDA f : ~InTable(rows, IdentifierOf(f)))

\* The body of the loop of process_meta_files_to_db for one meta file; st is
\* [rows, errors, inserts]: the table as the transaction sees it, the error
\* lines, and the identifiers an INSERT was executed for.  identifier is the
\* PRIMARY KEY of the table: an INSERT of one that has a row fails.
InsertMeta(cid, identifier, content, st) ==
    IF content.xml # "ok"
    THEN [st EXCEPT !.errors = Append(@,
             ErrorLine(cid, <<identifier>>, "DATA_ERROR", <<"XML syntax error", <<>>>>))]
    ELSE IF InTable(st.rows, identifier)
    THEN [st EXCEPT !.inserts = Append(@, identifier),
                    !.errors = Append(@,
             ErrorLine(cid, <<identifier>>, "DATA_ERROR", <<"IntegrityError", <<>>>>))]
    ELSE [st EXCEPT !.inserts = Append(@, identifier),
                    !.rows = Append(@, [identifier |-> identifier, cid |-> cid,
                                        meta |-> content.names])]

RECURSIVE InsertAll(_, _, _, _)
\* the loop of process_meta_files_to_db over meta_file_data.items()
InsertAll(cid, meta_file_data, i, st) ==
    IF i > Len(meta_file_data) THEN st
    ELSE InsertAll(cid, meta_file_data, i + 1,
            InsertMeta(cid, IdentifierOf(meta_file_data[i][1]), meta_file_data[i][2], st))

\* conn.commit(), or conn.rollback() and the DB_ERROR line when it raises
Committed(cid, rows, st, faults) ==
    IF CmdFailed(faults, <<"commit", <<>>>>)
    THEN [rows |-> rows, inserts |-> st.inserts, exc |-> "raised",
          errors |-> Append(st.errors, ErrorLine(cid, Star, "DB_ERROR", <<"commit", <<>>>>))]
    ELSE [rows |-> st.rows, inserts |-> st.inserts, exc |-> "none", errors |-> st.errors]

\* process_meta_files_to_db(cid, meta_file_data): [rows, inserts, exc, errors]
process_meta_files_to_db(cid, rows, meta_file_data, faults) ==
    IF meta_file_data = <<>>
    THEN [rows |-> rows, inserts |-> <<>>, exc |-> "none", errors |-> <<>>]
    ELSE Committed(cid, rows,
             InsertAll(cid, meta_file_data, 1,
                       [rows |-> rows, errors |-> <<>>, inserts |-> <<>>]),
             faults)

\* meta_file_data: f"{identifier}_meta.xml" -> xml_data['meta'] for the
\* identifiers of xml_results that have a 'meta'
MetaFileData(xml_results) ==
    [k \in 1..Len(SelectSeq(xml_results, LAMBDA e : DictHas(e[2], "meta"))) |->
        <<XmlName(SelectSeq(xml_results, LAMBDA e : DictHas(e[2], "meta"))[k][1], "meta"),
          DictGet(SelectSeq(xml_results, LAMBDA e : DictHas(e[2], "meta"))[k][2], "meta")>>]

\* what process_cid leaves: the table, the store commands it issued, the
\* lines it logged, the identifiers it executed an INSERT for
MetaExit(rows, calls, log, inserts, exc) ==
    [rows |-> rows, calls |-> calls, log |-> log, inserts |-> inserts, exc |-> exc]

\* process_cid once process_meta_files_to_db has ended with d
MetaStored(calls, f, d) ==
    MetaExit(d.rows, calls \o f.calls, f.errors \o d.errors, d.inserts, d.exc)

\* process_cid once the manifests have been fetched (f)
MetaFetched(cid, rows, calls, faults, f) ==
    MetaStored(calls, f,
               process_meta_files_to_db(cid, rows, MetaFileData(f.results), faults))

\* the tasks of process_cid: the meta manifest of each identifier to fetch
MetaTasks(meta_files_to_fetch) ==
    Tasks([k \in 1..Len(meta_files_to_fetch) |-> IdentifierOf(meta_files_to_fetch[k])],
          <<"meta">>)

\* process_cid once the meta files have been filtered
MetaFiltered(cid, rows, calls, done_order, faults, meta_files_to_fetch) ==
    IF meta_files_to_fetch = <<>>
    THEN MetaExit(rows, calls, <<>>, <<>>, "none")
    ELSE MetaFetched(cid, rows, calls, faults,
             fetch_xml_files_parallel(cid, MetaTasks(meta_files_to_fetch),
                 SelectSeq(done_order, LAMBDA t : t <= Len(meta_files_to_fetch)), faults))

\* process_cid once list_files has returned l
MetaListed(cid, rows, done_order, faults, l) ==
    IF l.out = <<>>
    THEN MetaExit(rows, l.calls,
             <<ErrorLine(cid, Star, "IPFS_ERROR", <<"No files found or failed to list files", <<>>>>)>>,
             <<>>, "none")
    ELSE IF SelectSeq(l.out, IsMetaFile) = <<>>
    THEN MetaExit(rows, l.calls,
             <<ErrorLine(cid, Star, "IPFS_ERROR", <<"No meta files found", <<>>>>)>>,
             <<>>, "none")
    ELSE MetaFiltered(cid, rows, l.calls, done_order, faults,
             filter_existing_meta_files(rows, SelectSeq(l.out, IsMetaFile)))

\* MetadataProcessor.process_cid(cid) on the table rows, the tasks of the
\* fetch completing in the order done_order
process_cid(cid, rows, done_order, faults) ==
    MetaListed(cid, rows, done_order, faults, list_files(cid, faults))

\* ------------------------------------------------------------ extract-items, the command
\* the name of the entry of an identifier in the container directory: the
\* identifier itself, which is no name of a member nor of a manifest
IdName(identifier) == NumNames + 2 * NumIds + identifier

\* The lines create_synthetic_directory prints with a bare print(): one
\* before each 'File not found in root CID' line it logs, one before each
\* 'Error creating synthetic directory' line.
PrintedFor(line) ==
    IF line.what[1] = "File not found in root CID"
    THEN <<"not found in root CID, skipping", line.what[2]>>
    ELSE <<"Error creating directory", line.item>>

SyntheticStdout(log) ==
    [k \in 1..Len(SelectSeq(log, LAMBDA l : l.what[1] \in
                      {"File not found in root CID", "Error creating synthetic directory"})) |->
        PrintedFor(SelectSeq(log, LAMBDA l : l.what[1] \in
                      {"File not found in root CID", "Error creating synthetic directory"})[k])]

\* all_results.extend(results) for the root just processed (r)
RootProcessed(st, r) ==
    [all_results |-> st.all_results \o r.value,
     log    |-> st.log \o r.log,
     calls  |-> st.calls \o r.calls,
     stderr |-> st.stderr \o r.stderr,
     stdout |-> st.stdout \o SyntheticStdout(r.log)]

RECURSIVE ProcessRoots(_, _, _, _, _)
\* The for loop of run_files over cids, from root i on; orders[i] is the
\* order of the identifier set of root i.
ProcessRoots(cids, i, orders, faults, st) ==
    IF i > Len(cids) THEN st
    ELSE ProcessRoots(cids, i + 1, orders, faults,
                      RootProcessed(st, process_cid_files(cids[i], orders[i], faults)))

\* print("identifier,synthetic_cid") and print(f"{identifier},{synthetic_cid}")
ResultRows(all_results) ==
    <<<<"identifier,synthetic_cid">>>>
        \o [k \in 1..Len(all_results) |-> <<"row", all_results[k][1], all_results[k][2]>>]

\* container_files[identifier] = synthetic_cid, for each result in order
ContainerFiles(all_results) ==
    DictUpdate(<<>>, [k \in 1..Len(all_results) |->
        <<<<IdName(all_results[k][1])>>, all_results[k][2]>>])

\* child_cids.append(synthetic_cid), for each result in order
ChildCids(all_results) == [k \in 1..Len(all_results) |-> all_results[k][2]]

\* the faults of the store commands of the build of the container
ContainerFaults(faults) ==
    {<<f[1][2], f[2]>> : f \in {g \in faults : g[1][1] = "container"}}

\* what run_files leaves: how it ended, the result rows, the container and
\* the children handed to the export, the archive, and what it printed
RunFilesExit(exit, st, container, child_cids, archive, stdout, stderr, calls) ==
    [exit |-> exit, rows |-> st.all_results, container |-> container,
     child_cids |-> child_cids, archive |-> archive, log |-> st.log,
     stdout |-> st.stdout \o stdout, stderr |-> st.stderr \o stderr,
     calls |-> st.calls \o calls]

\* run_files once the container is built (b) and exported (car)
RunFilesExported(st, b, car) ==
    RunFilesExit("done", st, b.value, ChildCids(st.all_results), car.blocks,
                 ResultRows(st.all_results) \o <<<<"container", b.value>>>>,
                 b.stderr \o car.stderr, b.calls \o car.calls)

\* run_files once the builder has ended with b: its RuntimeError is caught
\* by nothing and ends the command
RunFilesContainer(st, b, faults) ==
    IF b.exc # "none"
    THEN RunFilesExit("exit 1", st, NoValue, <<>>, <<>>, ResultRows(st.all_results),
                      Append(b.stderr, <<"Traceback", <<>>>>), b.calls)
    ELSE RunFilesExported(st, b,
             generate_shallow_car_file(b.value, ChildCids(st.all_results), faults))

\* run_files once every root is processed
RunFilesProcessed(st, faults) ==
    IF st.all_results = <<>>
    THEN RunFilesExit("done", st, NoValue, <<>>, <<>>, <<>>, <<>>, <<>>)
    ELSE RunFilesContainer(st,
             create_directory_via_mfs(ContainerFiles(st.all_results), ContainerFaults(faults)),
             faults)

\* run_files(cids)
run_files(cids, orders, faults) ==
    RunFilesProcessed(
        ProcessRoots(cids, 1, orders, faults,
            [all_results |-> <<>>, log |-> <<>>, calls |-> <<>>, stderr |-> <<>>,
             stdout |-> <<>>]),
        faults)

\* ------------------------------------------------------------ inputs
RECURSIVE SubsetsUpTo(_, _)
\* the subsets of S of at most k elements
SubsetsUpTo(S, k) ==
    IF k = 0 THEN {{}}
    ELSE LET prev == SubsetsUpTo(S, k - 1)
         IN  prev \cup {s \cup {x} : s \in prev, x \in S}

Paths == UNION {[1..d -> Names] : d \in 1..MaxDepth}

IsPrefix(p, q) == Len(p) <= Len(q) /\ SubSeq(q, 1, Len(p)) = p

IsProperPrefix(p, q) == Len(p) < Len(q) /\ IsPrefix(p, q)

PrefixFree(P) == \A p, q \in P : ~IsProperPrefix(p, q)

Files == {FileCid(i) : i \in 1..NumFiles}

Leaves == Files \cup {EmptyDir}

\* the assignments of a leaf to each path of a prefix-free set of paths
LeafMaps ==
    UNION {[P -> Leaves] : P \in {Q \in SubsetsUpTo(Paths, MaxEntries) : PrefixFree(Q)}}

RECURSIVE TreeOf(_)
\* the directory whose leaves are those of the leaf map m
TreeOf(m) ==
    LET under(n) == {p \in DOMAIN m : p[1] = n}
    IN  DirCid({<<n, IF <<n>> \in DOMAIN m THEN m[<<n>>]
                    ELSE TreeOf([q \in {Tail(p) : p \in under(n)} |-> m[<<n>> \o q]])>>
                : n \in {p[1] : p \in DOMAIN m}})

Trees == {TreeOf(m) : m \in LeafMaps}

WalkCalls ==
    {<<"list", p>> : p \in Paths \cup {<<>>}} \cup {<<"probe", p>> : p \in Paths}

WalkFaultSets ==
    {F \in SubsetsUpTo(WalkCalls \X {"fail", "timeout"}, MaxFaults) :
        \A f, g \in F : f[1] = g[1] => f = g}

\* ------------------------------------------------------------ state
VARIABLES
    pc,                       \* "start" before the call, "done" after it
    cids,                     \* the root addresses given to the operation
    known_files,              \* the known_files argument of the walk
    force_check_directories,  \* the flag of merge-roots
    files_dict,               \* the mapping handed to the directory builder
    faults,                   \* what the store will do wrong in this run
    ret,                      \* [exc, value]: the outcome of the operation
    stderr,                   \* messages printed to standard error
    error_log,                \* lines appended to the error log (log_errors)
    ipfs_calls                \* the store commands issued, in order

VARIABLES
    names,                    \* the names argument of collect (address -> name)
    history,                  \* the outcomes of the earlier invocations
    db,                       \* the rows of the metadata table
    identifiers,              \* the identifiers whose manifests are wanted
    xml_types,                \* the manifest kinds wanted for each of them
    futures,                  \* the state of each task given to the thread pool
    drained,                  \* the tasks the main thread has collected, in order
    results,                  \* identifier -> kind -> content, as fetched
    errors,                   \* the error lines the tasks have appended
    valid_identifiers         \* what the completeness validation returned

VARIABLES
    stdout,                   \* lines printed to standard output
    mfs                       \* the copy loop of the builder, taken step by step

\* the state of collect, of the metadata table and of the manifest fetch
collect_vars == <<names, history>>

run_vars == <<stdout, mfs>>

manifest_vars == <<db, identifiers, xml_types, futures, drained, results, errors,
                   valid_identifiers>>

vars == <<pc, cids, known_files, force_check_directories, files_dict, faults,
          ret, stderr, error_log, ipfs_calls, collect_vars, manifest_vars, run_vars>>

inputs == <<cids, known_files, force_check_directories, files_dict, faults>>

NoOutput ==
    /\ ret = [exc |-> "none", value |-> <<>>]
    /\ stderr = <<>>
    /\ error_log = <<>>
    /\ ipfs_calls = <<>>

\* the copy loop before its first turn
NoCopies == [i |-> 0, operation_count |-> 0, unflushed |-> 0,
             cp_failures |-> 0, flush_failures |-> 0]

\* nothing printed, and no copy loop taken step by step in this run
NoRun == stdout = <<>> /\ mfs = NoCopies

\* no collect, no metadata table and no manifest fetch in this run
NoCollect == names = <<>> /\ history = <<>>

NoManifests ==
    /\ db = <<>>
    /\ identifiers = <<>>
    /\ xml_types = {}
    /\ futures = <<>>
    /\ drained = <<>>
    /\ results = <<>>
    /\ errors = <<>>
    /\ valid_identifiers = <<>>

\* ------------------------------------------------------------ the walk alone
InitWalk ==
    /\ pc = "start"
    /\ cids \in {<<t>> : t \in Trees}
    /\ known_files \in SubsetsUpTo(Paths, MaxKnown)
    /\ force_check_directories = FALSE
    /\ files_dict = <<>>
    /\ faults \in WalkFaultSets
    /\ NoOutput
    /\ NoCollect
    /\ NoRun
    /\ NoManifests

\* files_with_cids = list_files_with_cids(root_cid, known_files)
RunWalk ==
    /\ pc = "start"
    /\ LET r == list_files_with_cids(cids[1], known_files, faults)
       IN  /\ ret' = [exc |-> "none", value |-> r.files]
           /\ stderr' = r.stderr
           /\ ipfs_calls' = r.calls
    /\ pc' = "done"
    /\ UNCHANGED <<inputs, error_log, collect_vars, run_vars, manifest_vars>>

NextWalk == RunWalk

SpecWalk == InitWalk /\ [][NextWalk]_vars

\* ------------------------------------------------------------ build, then walk
\* a directory that is not a leaf, as a value of a mapping
NestedDir == DirCid({<<1, FileCid(1)>>})

BuildValues == Leaves \cup {NestedDir}

RECURSIVE DictsUpTo(_)
\* the dicts of at most k items from Paths to BuildValues
DictsUpTo(k) ==
    IF k = 0 THEN {<<>>}
    ELSE LET prev == DictsUpTo(k - 1)
         IN  prev \cup {Append(d, <<p, v>>) :
                          d \in {e \in prev : Len(e) = k - 1},
                          p \in Paths, v \in BuildValues}

BuildCalls ==
    {<<"mkdir", <<>>>>, <<"flush", <<>>>>, <<"stat", <<>>>>, <<"rm", <<>>>>}
        \cup {<<"cp", p>> : p \in Paths}

\* at most MaxFaults failing commands and, besides them, a removal of the
\* staging area that may fail
BuildFaultSets ==
    {F \cup G : F \in SubsetsUpTo(BuildCalls \X {"fail"}, MaxFaults),
                G \in SUBSET {<<<<"rm", <<>>>>, "fail">>}}

InitBuild ==
    /\ pc = "start"
    /\ cids = <<>>
    /\ known_files = {}
    /\ force_check_directories = FALSE
    /\ files_dict \in {d \in DictsUpTo(MaxEntries) : Len(d) = Cardinality(DictKeys(d))}
    /\ faults \in BuildFaultSets
    /\ NoOutput
    /\ NoCollect
    /\ NoRun
    /\ NoManifests

\* dir_cid = create_directory_via_mfs(files_dict, name_prefix)
RunBuild ==
    /\ pc = "start"
    /\ LET r == create_directory_via_mfs(files_dict, faults)
       IN  /\ ret' = [exc |-> r.exc, value |-> r.value]
           /\ stderr' = r.stderr
           /\ ipfs_calls' = r.calls
           /\ cids' = IF r.exc = "none" THEN <<r.value>> ELSE <<>>
           /\ pc' = IF r.exc = "none" THEN "built" ELSE "raised"
    /\ UNCHANGED <<known_files, force_check_directories, files_dict, faults, error_log,
                   collect_vars, run_vars, manifest_vars>>

\* list_files_with_cids(dir_cid) on the address the builder returned
RunWalkBuilt ==
    /\ pc = "built"
    /\ LET r == list_files_with_cids(cids[1], {}, faults)
       IN  /\ ret' = [exc |-> "none", value |-> r.files]
           /\ stderr' = stderr \o r.stderr
           /\ ipfs_calls' = ipfs_calls \o r.calls
    /\ pc' = "done"
    /\ UNCHANGED <<inputs, error_log, collect_vars, run_vars, manifest_vars>>

NextBuild == RunBuild \/ RunWalkBuilt

SpecBuild == InitBuild /\ [][NextBuild]_vars

\* ------------------------------------------------------------ merge-roots
\* the roots given to a merge: trees of at most two leaves
RootPool ==
    {TreeOf(m) : m \in {l \in LeafMaps : Cardinality(DOMAIN l) < MaxEntries}}

\* the lists of at most k roots
RootLists(k) == UNION {[1..n -> RootPool] : n \in 0..k}

MergeCalls ==
    {<<"list", <<>>>>, <<"mkdir", <<>>>>, <<"flush", <<>>>>, <<"stat", <<>>>>, <<"rm", <<>>>>}

MergeFaultSets == SubsetsUpTo(MergeCalls \X {"fail"}, MaxFaults)

InitMerge ==
    /\ pc = "start"
    /\ cids \in RootLists(MaxRoots)
    /\ known_files = {}
    /\ force_check_directories \in BOOLEAN
    /\ files_dict = <<>>
    /\ faults \in MergeFaultSets
    /\ NoOutput
    /\ NoCollect
    /\ NoRun
    /\ NoManifests

\* merged_cid = merge_root_cids(cids, force_check_directories=...)
RunMerge ==
    /\ pc = "start"
    /\ LET r == merge_root_cids(cids, force_check_directories, faults)
       IN  /\ ret' = [exc |-> r.exc, value |-> r.value]
           /\ files_dict' = r.handed
           /\ error_log' = error_log \o r.log
           /\ stderr' = r.stderr
           /\ ipfs_calls' = r.calls
           /\ pc' = IF r.exc = "none" THEN "done" ELSE "raised"
    /\ UNCHANGED <<cids, known_files, force_check_directories, faults,
                   collect_vars, run_vars, manifest_vars>>

NextMerge == RunMerge

SpecMerge == InitMerge /\ [][NextMerge]_vars

\* ------------------------------------------------------------ collect, run and run again
MaxNamed == 2
MaxRuns == 2

PoolSet == {CollectPool[i] : i \in 1..Len(CollectPool)}

\* the names a caller may give: ordinary names and strings of addresses
NameValues == {<<n>> : n \in Names} \cup {CidString(c) : c \in PoolSet}

NameMaps ==
    UNION {[D -> NameValues] : D \in SubsetsUpTo(PoolSet, MaxNamed)}

CollectStoreCalls ==
    {<<"mkdir", <<>>>>, <<"flush", <<>>>>, <<"stat", <<>>>>, <<"rm", <<>>>>,
     <<"block get", <<0>>>>} \cup {<<"cp", k>> : k \in NameValues}

CollectFaultSets ==
    SubsetsUpTo(((CollectStoreCalls \cup {<<"car put-block", <<0>>>>}) \X {"fail"})
                    \cup (CollectStoreCalls \X {"hang"}),
                MaxFaults)

\* the invocations that have ended, the last one included
Ended == pc \in {"done", "exit 1"}

InitCollect ==
    /\ pc = "start"
    /\ cids \in UNION {[1..n -> PoolSet] : n \in 0..MaxRoots}
    /\ names \in NameMaps
    /\ history = <<>>
    /\ known_files = {}
    /\ force_check_directories = FALSE
    /\ files_dict = <<>>
    /\ faults = {}
    /\ NoOutput
    /\ NoRun
    /\ NoManifests

\* run_collect(cid_list, names) returned, or left with sys.exit(1): the
\* command has ended; f is what the store did wrong during it
CollectEnds(f, r) ==
    /\ pc' = IF r.exit = "exit 1" THEN "exit 1" ELSE "done"
    /\ ret' = [exc |-> "none", value |-> r.value]
    /\ files_dict' = r.entries
    /\ stderr' = r.stderr
    /\ ipfs_calls' = r.calls

\* a store command of run_collect never returned: the command waits in it
CollectWaits(f, r, h) ==
    /\ pc' = "blocked"
    /\ ret' = [exc |-> "none", value |-> NoValue]
    /\ files_dict' = r.entries
    /\ stderr' = r.head \o StderrBefore(r.calls, r.built, h)
    /\ ipfs_calls' = SubSeq(r.calls, 1, h)

\* the command ends unless the store hangs on one of its calls
CollectStep(f, r) ==
    IF BlockedAt(r.calls, f) = 0 THEN CollectEnds(f, r)
    ELSE CollectWaits(f, r, BlockedAt(r.calls, f))

\* One invocation of the collect command, run_collect(cid_list, names); the
\* outcome of the invocation before it, if any, moves to history.
RunCollect ==
    /\ pc = "start" \/ Ended
    /\ Len(history) + (IF Ended THEN 1 ELSE 0) < MaxRuns
    /\ history' = IF Ended THEN Append(history, [ret |-> ret, stderr |-> stderr])
                  ELSE history
    /\ \E f \in CollectFaultSets :
          /\ faults' = f
          /\ CollectStep(f, run_collect(cids, names, f))
    /\ UNCHANGED <<cids, names, run_vars, known_files, force_check_directories, error_log,
                   manifest_vars>>

NextCollect == RunCollect

SpecCollect == InitCollect /\ [][NextCollect]_vars

\* ------------------------------------------------------------ extract-items, run
Identifiers == 1..NumIds

\* the orders in which a set of identifiers can be listed
Orders ==
    {o \in [1..NumIds -> Identifiers] : \A i, j \in 1..NumIds : o[i] = o[j] => i = j}

\* What a root holds of an identifier: its meta.xml or not, and its
\* files.xml, which is one of Docs, or not (0).
ManifestChoices == [Identifiers -> [meta : BOOLEAN, files : 0..Len(Docs)]]

\* what a root holds under an ordinary name: nothing, a file, or a
\* directory with a file in it
MemberValues == {FileCid(1), NestedDir}

MemberChoices == [Names -> MemberValues \cup {NoValue}]

ManifestLinks(m) ==
    {<<XmlName(i, "meta"), ManifestCid(1)>> : i \in {j \in Identifiers : m[j].meta}}
        \cup {<<XmlName(i, "files"), ManifestCid(m[i].files)>>
                 : i \in {j \in Identifiers : m[j].files # 0}}

MemberLinks(e) == {<<n, e[n]>> : n \in {k \in Names : e[k] # NoValue}}

FilesRoots ==
    {DirCid(ManifestLinks(m) \cup MemberLinks(e)) : m \in ManifestChoices, e \in MemberChoices}

TopNames == Names \cup {XmlName(i, t) : i \in Identifiers, t \in {"meta", "files"}}

FilesCalls ==
    {<<"list_files", <<>>>>, <<"ls", <<>>>>, <<"list", <<>>>>}
        \cup {<<"cat", <<XmlName(i, t)>>>> : i \in Identifiers, t \in {"meta", "files"}}
        \cup {<<"probe", <<n>>>> : n \in TopNames}
        \cup {<<"list", <<n>>>> : n \in Names}
        \cup {<<"probe", p>> : p \in Paths}
        \cup BuildCalls

FilesFaultSets == SubsetsUpTo(FilesCalls \X {"fail"}, MaxFaults)

InitFiles ==
    /\ pc = "start"
    /\ cids \in {<<root>> : root \in FilesRoots}
    /\ known_files = {}
    /\ force_check_directories = FALSE
    /\ files_dict = <<>>
    /\ faults \in FilesFaultSets
    /\ NoOutput
    /\ NoCollect
    /\ NoRun
    /\ NoManifests

\* process_cid_files has returned r
FilesReturns(r) ==
    /\ pc' = "done"
    /\ ret' = [exc |-> "none", value |-> r.value]
    /\ identifiers' = r.all_identifiers
    /\ results' = r.xml_results
    /\ valid_identifiers' = r.valid
    /\ known_files' = r.known_files
    /\ error_log' = log_errors(error_log, r.log)
    /\ ipfs_calls' = r.calls
    /\ stderr' = r.stderr

\* results = process_cid_files(cid)
RunFiles ==
    /\ pc = "start"
    /\ \E order \in Orders : FilesReturns(process_cid_files(cids[1], order, faults))
    /\ UNCHANGED <<cids, force_check_directories, files_dict, faults, collect_vars, run_vars,
                   db, xml_types, futures, drained, errors>>

NextFiles == RunFiles

SpecFiles == InitFiles /\ [][NextFiles]_vars

\* ------------------------------------------------------------ the parallel fetch, run
\* a root of the fetch: per identifier a meta.xml (absent, a document, or an
\* empty file) and a files.xml (absent or a document)
FetchChoices == [Identifiers -> [meta : {0, 1, 6}, files : {0, 2}]]

FetchLinks(m) ==
    {<<XmlName(i, "meta"), ManifestCid(m[i].meta)>> : i \in {j \in Identifiers : m[j].meta # 0}}
        \cup {<<XmlName(i, "files"), ManifestCid(m[i].files)>>
                 : i \in {j \in Identifiers : m[j].files # 0}}

FetchRoots == {DirCid(FetchLinks(m)) : m \in FetchChoices}

CatCalls == {<<"cat", <<XmlName(i, t)>>>> : i \in Identifiers, t \in {"meta", "files"}}

FetchFaultSets ==
    SubsetsUpTo((CatCalls \X {"fail", "raise"}) \cup {<<<<"list", <<>>>>, "fail">>}, MaxFaults)

\* the lists of identifiers a caller can pass
IdentifierLists ==
    {<<>>} \cup {<<i>> : i \in Identifiers}
           \cup {p \in Identifiers \X Identifiers : p[1] # p[2]}

\* the orders in which the set xml_types can be iterated
TypeOrders(types) ==
    IF types = {"meta"} THEN {<<"meta">>}
    ELSE {<<"meta", "files">>, <<"files", "meta">>}

InitFetch ==
    /\ pc = "start"
    /\ cids \in {<<root>> : root \in FetchRoots}
    /\ known_files = {}
    /\ force_check_directories = FALSE
    /\ files_dict = <<>>
    /\ faults \in FetchFaultSets
    /\ NoOutput
    /\ NoCollect
    /\ NoRun
    /\ db = <<>>
    /\ identifiers \in IdentifierLists
    /\ xml_types \in {{"meta"}, {"meta", "files"}}
    /\ futures = <<>>
    /\ drained = <<>>
    /\ results = <<>>
    /\ errors = <<>>
    /\ valid_identifiers = <<>>

\* files_with_cids = list_files_with_cids(cid)
FilesWithCids == list_files_with_cids(cids[1], {}, faults)

Running == {t \in 1..Len(futures) : futures[t].state = "running"}

\* fetch_xml_files_parallel up to the submission of the tasks
SubmitTasks ==
    /\ pc = "start"
    /\ pc' = "fetching"
    /\ ipfs_calls' = FilesWithCids.calls
    /\ stderr' = FilesWithCids.stderr
    /\ \E type_order \in TypeOrders(xml_types) :
          futures' = Submitted(Tasks(identifiers, type_order))
    /\ UNCHANGED <<inputs, ret, error_log, collect_vars, run_vars, db, identifiers, xml_types,
                   drained, results, errors, valid_identifiers>>

\* a free worker of the pool takes the task at the head of the queue
WorkerStarts(t) ==
    /\ pc = "fetching"
    /\ futures[t].state = "pending"
    /\ \A u \in 1..(t - 1) : futures[u].state # "pending"
    /\ Cardinality(Running) < max_workers
    /\ futures' = [futures EXCEPT ![t].state = "running"]
    /\ UNCHANGED <<pc, inputs, ret, stderr, error_log, ipfs_calls, collect_vars, run_vars, db,
                   identifiers, xml_types, drained, results, errors, valid_identifiers>>

\* the worker has run fetch_single_xml to its return r
TaskReturns(t, r) ==
    /\ futures' = [futures EXCEPT ![t].state = "done", ![t].content = r.content]
    /\ errors' = errors \o r.errors
    /\ ipfs_calls' = ipfs_calls \o r.calls

\* a worker finishes its task
WorkerFinishes(t) ==
    /\ pc = "fetching"
    /\ futures[t].state = "running"
    /\ TaskReturns(t, fetch_single_xml(cids[1], FilesWithCids.files,
                                       futures[t].ident, futures[t].xml_type, faults))
    /\ UNCHANGED <<pc, inputs, ret, stderr, error_log, collect_vars, run_vars, db,
                   identifiers, xml_types, drained, results, valid_identifiers>>

\* for future in as_completed(futures): the main thread takes a finished
\* task it has not taken yet
Drain(t) ==
    /\ pc = "fetching"
    /\ futures[t].state = "done"
    /\ \A k \in 1..Len(drained) : drained[k] # t
    /\ drained' = Append(drained, t)
    /\ results' = Collected1(results, futures[t].ident, futures[t].xml_type,
                             futures[t].content)
    /\ stderr' = Append(stderr,
                    <<IF Truthy(futures[t].content) THEN "Fetched" ELSE "Failed to fetch",
                      <<XmlName(futures[t].ident, futures[t].xml_type)>>>>)
    /\ UNCHANGED <<pc, inputs, ret, error_log, ipfs_calls, collect_vars, run_vars, db,
                   identifiers, xml_types, futures, errors, valid_identifiers>>

\* every task is taken: the errors are logged and results is returned
FetchReturns ==
    /\ pc = "fetching"
    /\ Len(drained) = Len(futures)
    /\ pc' = "done"
    /\ error_log' = log_errors(error_log, errors)
    /\ ret' = [exc |-> "none", value |-> results]
    /\ UNCHANGED <<inputs, stderr, ipfs_calls, collect_vars, run_vars, manifest_vars>>

NextFetch ==
    \/ SubmitTasks
    \/ \E t \in 1..Len(futures) : WorkerStarts(t)
    \/ \E t \in 1..Len(futures) : WorkerFinishes(t)
    \/ \E t \in 1..Len(futures) : Drain(t)
    \/ FetchReturns

SpecFetch == InitFetch /\ [][NextFetch]_vars

\* ------------------------------------------------------------ metadata, run
\* a root of metadata: per identifier a meta.xml that is absent (0), a
\* document (1) or bytes that are not XML (5)
MetaChoices == [Identifiers -> {0, 1, 5}]

MetaRoots ==
    {DirCid({<<XmlName(i, "meta"), ManifestCid(m[i])>> : i \in {j \in Identifiers : m[j] # 0}})
        : m \in MetaChoices}

MetaFaultSets ==
    SubsetsUpTo(({<<"list_files", <<>>>>, <<"list", <<>>>>, <<"commit", <<>>>>}
                    \cup {<<"cat", <<XmlName(i, "meta")>>>> : i \in Identifiers})
                \X {"fail"}, MaxFaults)

\* MetadataProcessor(db_path): the table exists and, here, is empty
InitMetadata ==
    /\ pc = "start"
    /\ cids \in UNION {[1..n -> MetaRoots] : n \in 1..MaxRoots}
    /\ known_files = {}
    /\ force_check_directories = FALSE
    /\ files_dict = <<>>
    /\ faults = {}
    /\ NoOutput
    /\ NoCollect
    /\ NoRun
    /\ NoManifests

\* the root the loop of run_metadata is at: every invocation goes through
\* cids in order, and history has one record per process_cid that ended
NextRoot == (Len(history) % Len(cids)) + 1

Stored(rows) == {rows[k].identifier : k \in 1..Len(rows)}

\* processor.process_cid(cids[k]) has ended with r
MetaStep(k, r) ==
    /\ db' = r.rows
    /\ ipfs_calls' = r.calls
    /\ error_log' = log_errors(error_log, r.log)
    /\ stderr' = IF r.exc = "raised" THEN Append(stderr, <<"Error processing", <<k>>>>)
                 ELSE stderr
    /\ history' = Append(history, [root |-> k, stored |-> Stored(db),
                                   calls |-> r.calls, inserts |-> r.inserts])
    /\ pc' = IF k = Len(cids) THEN "done" ELSE "running"

\* One turn of the loop of run_metadata: process_cid on the next root, an
\* exception of which is printed and goes no further.  After the last root
\* the command ends; it can be invoked again on the same roots and table.
RunMetadataCid ==
    /\ pc \in {"start", "running", "done"}
    /\ Len(history) < MaxRuns * Len(cids)
    /\ \E f \in MetaFaultSets, done_order \in CompletionOrders(NumIds) :
          /\ faults' = f
          /\ MetaStep(NextRoot, process_cid(cids[NextRoot], db, done_order, f))
    /\ UNCHANGED <<cids, known_files, force_check_directories, files_dict, ret, names, run_vars,
                   identifiers, xml_types, futures, drained, results, errors,
                   valid_identifiers>>

NextMetadata == RunMetadataCid

SpecMetadata == InitMetadata /\ [][NextMetadata]_vars

\* ------------------------------------------------------------ the copy loop, step by step
\* how many entries the mapping can have, and how many copies and
\* intermediate flushes the store can fail
MaxCopies == 2048
MaxCopyFailures == 2
MaxFlushFailures == 1

\* create_directory_via_mfs after a successful mkdir: operation_count = 0,
\* and nothing applied to the staging area
InitFlush ==
    /\ pc = "copying"
    /\ cids = <<>>
    /\ known_files = {}
    /\ force_check_directories = FALSE
    /\ files_dict = <<>>
    /\ faults = {}
    /\ NoOutput
    /\ NoCollect
    /\ stdout = <<>>
    /\ mfs = NoCopies
    /\ NoManifests

\* the copy of the entry failed: a warning, and operation_count is kept
CopyFailed(m) ==
    [m EXCEPT !.i = @ + 1, !.cp_failures = @ + 1]

\* the copy succeeded (the store has one more unflushed operation) and
\* operation_count + 1 is below MFS_FLUSH_LIMIT - 1: no flush
CopiedNoFlush(m) ==
    [m EXCEPT !.i = @ + 1, !.operation_count = @ + 1, !.unflushed = @ + 1]

\* the copy succeeded and operation_count + 1 >= MFS_FLUSH_LIMIT - 1: the
\* flush is issued, and operation_count = 0 follows it whether it returned 0
\* (flushed) or not
CopiedAndFlush(m, flushed) ==
    [m EXCEPT !.i = @ + 1, !.operation_count = 0,
              !.unflushed = IF flushed THEN 0 ELSE @ + 1,
              !.flush_failures = IF flushed THEN @ ELSE @ + 1]

\* One turn of the for loop of create_directory_via_mfs over
\* files_dict.items(): the copy of the next entry, and the intermediate
\* flush when operation_count has come to MFS_FLUSH_LIMIT - 1.
CopyItem ==
    /\ pc = "copying"
    /\ mfs.i < MaxCopies
    /\ \/ mfs.cp_failures < MaxCopyFailures /\ mfs' = CopyFailed(mfs)
       \/ mfs.operation_count + 1 < MFS_FLUSH_LIMIT - 1 /\ mfs' = CopiedNoFlush(mfs)
       \/ /\ mfs.operation_count + 1 >= MFS_FLUSH_LIMIT - 1
          /\ \E flushed \in BOOLEAN :
                /\ ~flushed => mfs.flush_failures < MaxFlushFailures
                /\ mfs' = CopiedAndFlush(mfs, flushed)
    /\ UNCHANGED <<pc, inputs, ret, stderr, error_log, ipfs_calls, stdout,
                   collect_vars, manifest_vars>>

\* the loop has ended (the mapping has mfs.i entries): the final flush
FinalFlush ==
    /\ pc = "copying"
    /\ pc' = "flushed"
    /\ \E flushed \in BOOLEAN :
          mfs' = [mfs EXCEPT !.unflushed = IF flushed THEN 0 ELSE @]
    /\ UNCHANGED <<inputs, ret, stderr, error_log, ipfs_calls, stdout,
                   collect_vars, manifest_vars>>

NextFlush == CopyItem \/ FinalFlush

SpecFlush == InitFlush /\ [][NextFlush]_vars

\* ------------------------------------------------------------ the archive, run
MaxChildren == 2

\* the addresses an export can be given: files, and directories with
\* blocks below them
ExportPool ==
    {FileCid(1), FileCid(2), DirCid({}), NestedDir, DirCid({<<1, NestedDir>>}),
     DirCid({<<1, FileCid(1)>>, <<2, FileCid(2)>>})}

ExportCalls ==
    {<<op, <<k>>>> : op \in {"block get", "car put-block"}, k \in 0..MaxChildren}

ExportFaultSets ==
    SubsetsUpTo((ExportCalls \X {"fail"})
                   \cup {<<<<"car put-block", <<k>>>>, "mismatch">> : k \in 0..MaxChildren},
                MaxFaults)

\* cids is the root followed by the children
InitExport ==
    /\ pc = "start"
    /\ cids \in UNION {[1..n -> ExportPool] : n \in 1..(1 + MaxChildren)}
    /\ known_files = {}
    /\ force_check_directories = FALSE
    /\ files_dict = <<>>
    /\ faults \in ExportFaultSets
    /\ NoOutput
    /\ NoCollect
    /\ NoRun
    /\ NoManifests

\* generate_shallow_car_file has returned r
ExportReturns(r) ==
    /\ pc' = "done"
    /\ ret' = [exc |-> "none", value |-> [ok |-> r.ok, blocks |-> r.blocks]]
    /\ ipfs_calls' = r.calls
    /\ stderr' = r.stderr

\* generate_shallow_car_file(root_cid, child_cids, output_path)
RunExport ==
    /\ pc = "start"
    /\ ExportReturns(generate_shallow_car_file(cids[1], Tail(cids), faults))
    /\ UNCHANGED <<inputs, error_log, collect_vars, run_vars, manifest_vars>>

NextExport == RunExport

SpecExport == InitExport /\ [][NextExport]_vars

\* ------------------------------------------------------------ extract-items, the command, run
\* What a root of the command holds: of identifier 1 a meta.xml or not and a
\* files.xml that declares one or two members, or none; of identifier 2
\* both manifests or nothing; and the members.
RunManifestLinks ==
    {ManifestLinks([i \in Identifiers |->
                       IF i = 1 THEN m ELSE [meta |-> both, files |-> IF both THEN 2 ELSE 0]])
        : m \in [meta : BOOLEAN, files : {0, 2, 3}], both \in BOOLEAN}

RunMemberLinks ==
    {MemberLinks(e) : e \in {f \in [Names -> Files \cup {NoValue}] :
                                \A n \in Names : f[n] = NoValue \/ n <= f[n].id}}

RunRoots == {DirCid(x \cup y) : x \in RunManifestLinks, y \in RunMemberLinks}

RunFilesCalls ==
    {<<"list_files", <<>>>>, <<"ls", <<>>>>, <<"list", <<>>>>, <<"stat", <<>>>>,
     <<"cp", <<1>>>>, <<"cat", <<XmlName(1, "files")>>>>,
     <<"container", <<"stat", <<>>>>>>, <<"container", <<"cp", <<IdName(1)>>>>>>,
     <<"block get", <<0>>>>, <<"block get", <<1>>>>}

RunFilesFaultSets ==
    SubsetsUpTo((RunFilesCalls \X {"fail"})
                    \cup {<<<<"car put-block", <<1>>>>, "mismatch">>}, MaxFaults)

InitRunFiles ==
    /\ pc = "start"
    /\ cids \in UNION {[1..n -> RunRoots] : n \in 0..MaxRoots}
    /\ known_files = {}
    /\ force_check_directories = FALSE
    /\ files_dict = <<>>
    /\ faults \in RunFilesFaultSets
    /\ NoOutput
    /\ NoCollect
    /\ NoRun
    /\ NoManifests

\* run_files has ended with r: it returned (exit code 0) or it was ended by
\* an exception (exit code 1)
RunFilesEnds(r) ==
    /\ pc' = r.exit
    /\ ret' = [exc |-> IF r.exit = "done" THEN "none" ELSE "RuntimeError",
               value |-> [rows |-> r.rows, container |-> r.container,
                          child_cids |-> r.child_cids, archive |-> r.archive]]
    /\ stdout' = r.stdout
    /\ stderr' = r.stderr
    /\ error_log' = log_errors(error_log, r.log)
    /\ ipfs_calls' = r.calls

\* ia-fil extract-items: run_files(cid_list)
RunFilesCmd ==
    /\ pc = "start"
    /\ \E orders \in [1..Len(cids) -> Orders] : RunFilesEnds(run_files(cids, orders, faults))
    /\ UNCHANGED <<inputs, collect_vars, mfs, manifest_vars>>

NextRunFiles == RunFilesCmd

SpecRunFiles == InitRunFiles /\ [][NextRunFiles]_vars

\* ------------------------------------------------------------ tree facts
\* the link of directory cid named n, as a set (empty when there is none)
Child(cid, n) == {e[2] : e \in {l \in cid.links : l[1] = n}}

RECURSIVE HasEntry(_, _)
\* the tree under cid has an entry at path p
HasEntry(cid, p) ==
    /\ p # <<>>
    /\ Child(cid, p[1]) # {}
    /\ Len(p) > 1 => HasEntry(CHOOSE c \in Child(cid, p[1]) : TRUE, Tail(p))

RECURSIVE CidAt(_, _)
\* the address of the entry at path p of the tree under cid
CidAt(cid, p) ==
    IF p = <<>> THEN cid ELSE CidAt(CHOOSE c \in Child(cid, p[1]) : TRUE, Tail(p))

IsNonEmptyDir(cid) == cid.links # {}

RECURSIVE LeavesOf(_, _)
\* <<path, address>> of every file and empty directory below cid
LeavesOf(cid, prefix) ==
    UNION {IF IsNonEmptyDir(l[2]) THEN LeavesOf(l[2], Append(prefix, l[1]))
           ELSE {<<Append(prefix, l[1]), l[2]>>} : l \in cid.links}

Parent(p) == SubSeq(p, 1, Len(p) - 1)

Issued(call) == \E i \in 1..Len(ipfs_calls) : ipfs_calls[i] = call

Said(msg) == \E i \in 1..Len(stderr) : stderr[i] = msg

\* the directory at path p was listed by the walk and the listing succeeded
Listed(p) == Issued(<<"list", p>>) /\ FaultOutcome(faults, <<"list", p>>) = "ok"

\* ------------------------------------------------------------ claims: merge
\* what the walk of root i returns
WalkOf(i) == list_files_with_cids(cids[i], {}, faults).files

Roots == 1..Len(cids)

Logged(kind, item) ==
    \E k \in 1..Len(error_log) : error_log[k].kind = kind /\ error_log[k].item = item

MergeEnded == pc \in {"done", "raised"}

\* merge returned the address of a directory
MergeReturnedAddress == pc = "done" /\ ret.exc = "none" /\ ret.value.kind = "dir"

\* name 1 stands for a name that looks like a file name, such as "image.jpg"
LooksLikeFile(item_name) == item_name = 1

\* root i holds, under a name that looks like a file name, a directory with a file in it
MisleadingDir(i, n) ==
    /\ LooksLikeFile(n)
    /\ HasEntry(cids[i], <<n>>)
    /\ IsNonEmptyDir(CidAt(cids[i], <<n>>))

\* C1: when a path p is mapped to an address by one root's walk and to a
\* different address by a later root's walk, p is not a key of the mapping
\* handed to the directory builder and a DATA_ERROR record naming p is logged.
C1_ConflictExcludedAndLogged ==
    MergeEnded =>
        \A i, j \in Roots : \A p \in DictKeys(WalkOf(i)) \cap DictKeys(WalkOf(j)) :
            (i < j /\ DictGet(WalkOf(i), p) # DictGet(WalkOf(j), p)) =>
                /\ ~DictHas(files_dict, p)
                /\ Logged("DATA_ERROR", p)

\* C2: when every root whose walk contains the path p maps it to the same
\* address X, the merged mapping has exactly one entry p -> X and no conflict
\* record is logged for p.
C2_AgreedPathMergedOnce ==
    MergeEnded =>
        \A i \in Roots : \A p \in DictKeys(WalkOf(i)) :
            (\A j \in Roots : DictHas(WalkOf(j), p) =>
                                DictGet(WalkOf(j), p) = DictGet(WalkOf(i), p)) =>
                /\ Cardinality({k \in 1..Len(files_dict) : files_dict[k][1] = p}) = 1
                /\ DictGet(files_dict, p) = DictGet(WalkOf(i), p)
                /\ ~Logged("DATA_ERROR", p)

\* C3: for two roots with files whose walks have no path in common (and no
\* path of one below a path of the other), with the store answering every
\* call, the paths of the merged mapping are the union of the paths of the
\* two walks and the directory built lists exactly those paths.
C3_DisjointUnion ==
    (/\ MergeEnded /\ Len(cids) = 2 /\ faults = {}
     /\ WalkOf(1) # <<>> /\ WalkOf(2) # <<>>
     /\ DictKeys(WalkOf(1)) \cap DictKeys(WalkOf(2)) = {}
     /\ PrefixFree(DictKeys(WalkOf(1)) \cup DictKeys(WalkOf(2)))) =>
        /\ DictKeys(files_dict) = DictKeys(WalkOf(1)) \cup DictKeys(WalkOf(2))
        /\ MergeReturnedAddress
        /\ {l[1] : l \in LeavesOf(ret.value, <<>>)}
              = DictKeys(WalkOf(1)) \cup DictKeys(WalkOf(2))

\* C4: merge fails (returns no address) only if no root yields any files:
\* with the store answering every call, whenever the walk of at least one
\* root is not empty, merge returns an address.
C4_FailsOnlyIfNoFiles ==
    (MergeEnded /\ faults = {} /\ \E i \in Roots : WalkOf(i) # <<>>) =>
        MergeReturnedAddress

\* C5: in default (heuristic) mode, merging a root that holds a directory
\* named like a file yields the entry of that name mapped to the directory's
\* own address, and no path below it is added to the merged mapping.
C5_HeuristicKeepsMisleadingDir ==
    (MergeEnded /\ ~force_check_directories /\ faults = {} /\ Len(cids) = 1) =>
        \A n \in Names : MisleadingDir(1, n) =>
            /\ DictHas(files_dict, <<n>>)
            /\ DictGet(files_dict, <<n>>) = CidAt(cids[1], <<n>>)
            /\ \A k \in DictKeys(files_dict) : ~IsProperPrefix(<<n>>, k)

\* C6: with the force-exhaustive flag, merge probes every entry, so a
\* directory named like a file is traversed and its children are reachable
\* under that name in the merged directory; merge returns an address.
C6_ForceCheckTraversesMisleadingDir ==
    (MergeEnded /\ force_check_directories /\ faults = {} /\ Len(cids) = 1) =>
        \A n \in Names : MisleadingDir(1, n) =>
            /\ MergeReturnedAddress
            /\ Issued(<<"probe", <<n>>>>)
            /\ \A l \in CidAt(cids[1], <<n>>).links : HasEntry(ret.value, <<n, l[1]>>)

\* ------------------------------------------------------------ claims: walk
\* C7: a walk with no known_files over a tree whose every listing succeeds
\* returns exactly one key per leaf (file or empty directory) at any depth,
\* keyed by the names from the root to the leaf and mapped to the leaf's
\* address; a non-empty directory is never a key.
C7_WalkReturnsLeaves ==
    (pc = "done" /\ known_files = {} /\ faults = {}) =>
        /\ ret.exc = "none"
        /\ AsMap(ret.value) = LeavesOf(cids[1], <<>>)
        /\ Len(ret.value) = Cardinality(DictKeys(ret.value))
        /\ \A k \in DictKeys(ret.value) : ~IsNonEmptyDir(CidAt(cids[1], k))

C7_Witness ==
    /\ pc = "done" /\ known_files = {} /\ faults = {}
    /\ \E k \in DictKeys(ret.value) : Len(k) = MaxDepth /\ DictGet(ret.value, k) = EmptyDir
    /\ \E k \in DictKeys(ret.value) : Len(k) = 1 /\ DictGet(ret.value, k).kind = "file"
    /\ Len(ret.value) = MaxEntries

\* C8: with known_files given, an entry the walk lists whose path is in
\* known_files is recorded as a file mapped to its own listed address, and
\* no probe (and no listing) is issued for it, at every depth.
C8_KnownFileNotProbed ==
    pc = "done" =>
        \A p \in known_files :
            (HasEntry(cids[1], p) /\ Listed(Parent(p))) =>
                /\ DictHas(ret.value, p)
                /\ DictGet(ret.value, p) = CidAt(cids[1], p)
                /\ ~Issued(<<"probe", p>>)
                /\ ~Issued(<<"list", p>>)

C8_Witness ==
    /\ pc = "done"
    /\ \E p \in known_files :
          /\ Len(p) > 1
          /\ HasEntry(cids[1], p) /\ Listed(Parent(p))
          /\ DictGet(ret.value, p) = CidAt(cids[1], p)
    /\ \E p \in known_files :
          /\ Len(p) = 1
          /\ HasEntry(cids[1], p) /\ IsNonEmptyDir(CidAt(cids[1], p))
          /\ DictGet(ret.value, p) = CidAt(cids[1], p)

\* C9 as claimed: the walk fails with a StoreUnavailable error when the root
\* itself cannot be listed.
C9_RootFailureRaises ==
    (pc = "done" /\ FaultOutcome(faults, <<"list", <<>>>>) # "ok") =>
        ret.exc = "StoreUnavailable"

\* C9 amended: a listing that fails or times out, of the root or of a
\* directory below it, raises nothing: the walk returns normally, that level
\* contributes no path, and a message naming the level goes to standard
\* error.  For the root the result is the empty mapping.
C9_ListFailureYieldsEmpty ==
    pc = "done" =>
        /\ ret.exc = "none"
        /\ \A i \in 1..Len(ipfs_calls) :
              LET call == ipfs_calls[i]
              IN  (call[1] = "list" /\ FaultOutcome(faults, call) # "ok") =>
                    /\ \A k \in DictKeys(ret.value) : ~IsPrefix(call[2], k)
                    /\ Said(<<IF FaultOutcome(faults, call) = "timeout"
                               THEN "Timeout listing" ELSE "Failed to list", call[2]>>)
                    /\ call[2] = <<>> => ret.value = <<>>

C9_Witness ==
    /\ pc = "done"
    /\ \E p \in Paths :
          /\ Issued(<<"list", p>>)
          /\ FaultOutcome(faults, <<"list", p>>) = "fail"
          /\ Said(<<"Failed to list", p>>)
          /\ ret.value # <<>>

\* ------------------------------------------------------------ claims: round trip
NoCollision(d) == PrefixFree(DictKeys(d))

\* C10 as claimed: for every mapping M without name collisions, when all
\* store operations succeed, walking the directory build(M) returns gives
\* back exactly M.
C10_RoundTripAnyMapping ==
    (pc = "done" /\ faults = {} /\ NoCollision(files_dict)) =>
        AsMap(ret.value) = AsMap(files_dict)

\* C10 amended: the round trip holds for every mapping M without name
\* collisions whose every address is a file or an empty directory; an
\* address of a non-empty directory is walked into, not returned.
C10_RoundTripLeafMapping ==
    (/\ pc = "done" /\ faults = {} /\ NoCollision(files_dict)
     /\ \A k \in DictKeys(files_dict) : ~IsNonEmptyDir(DictGet(files_dict, k))) =>
        /\ AsMap(ret.value) = AsMap(files_dict)
        /\ Len(ret.value) = Len(files_dict)

C10_Witness ==
    /\ pc = "done" /\ faults = {} /\ NoCollision(files_dict)
    /\ \A k \in DictKeys(files_dict) : ~IsNonEmptyDir(DictGet(files_dict, k))
    /\ Len(files_dict) = MaxEntries
    /\ \E k \in DictKeys(files_dict) : Len(k) > 1
    /\ \E k \in DictKeys(files_dict) : DictGet(files_dict, k) = EmptyDir
    /\ AsMap(ret.value) = AsMap(files_dict)

\* ------------------------------------------------------------ claims: collect
\* the copy of no entry failed in a run that printed the lines
NoCopyFailed(lines) == \A i \in 1..Len(lines) : lines[i][1] # "Failed to add"

\* collect has printed the address of the directory it built
Collected == pc = "done" /\ ret.value # NoValue

\* the name the claim gives the entry of address c: names[c] when present,
\* the address's own string otherwise
EntryName(c) == IF c \in DOMAIN names THEN names[c] ELSE CidString(c)

\* the last address of the list whose entry has the name k
LastNamed(k) ==
    cids[CHOOSE i \in 1..Len(cids) :
            /\ EntryName(cids[i]) = k
            /\ \A j \in 1..Len(cids) : EntryName(cids[j]) = k => j <= i]

C12_CollectIssuesNoListing ==
    (pc \in {"done", "exit 1", "blocked"}) =>
        \A i \in 1..Len(ipfs_calls) :
            \/ ipfs_calls[i][1] \in {"mkdir", "cp", "flush", "stat", "rm"}
            \/ ipfs_calls[i] = <<"block get", <<0>>>>

C12_Witness ==
    /\ Collected
    /\ \E i \in 1..Len(cids) : cids[i].links # {} /\ Issued(<<"cp", EntryName(cids[i])>>)
    /\ Issued(<<"block get", <<0>>>>)
    /\ \E l \in ret.value.links : l[2].links # {}

C17_NoCommandWaitsForever == pc # "blocked"

\* ------------------------------------------------------------ claims: build
\* create_directory_via_mfs has ended and nothing has run since
BuildEnded == pc \in {"built", "raised"}

Failed(call) == FaultOutcome(faults, call) # "ok"

\* what the build would have returned had the removal succeeded
WithRemoval ==
    create_directory_via_mfs(files_dict, faults \ {<<<<"rm", <<>>>>, "fail">>})

\* C19: on every exit path of build (an address returned, or a failure at
\* the creation of the staging area or at the address read-back, with or
\* without failed copies and flushes before it) the removal of the staging
\* area is attempted once, after every other staging command, and a failed
\* removal does not change what build returns or raises.
C19_RemovalAlwaysAttempted ==
    BuildEnded =>
        /\ ipfs_calls # <<>>
        /\ ipfs_calls[Len(ipfs_calls)] = <<"rm", <<>>>>
        /\ \A i \in 1..(Len(ipfs_calls) - 1) : ipfs_calls[i][1] # "rm"
        /\ ret = [exc |-> WithRemoval.exc, value |-> WithRemoval.value]

C19_Witness ==
    /\ pc = "raised"
    /\ Failed(<<"stat", <<>>>>) /\ Failed(<<"rm", <<>>>>)
    /\ Len(files_dict) = MaxEntries
    /\ Issued(<<"flush", <<>>>>)
    /\ ipfs_calls[Len(ipfs_calls)] = <<"rm", <<>>>>

\* C20 as claimed: build fails with a build error, and returns no address,
\* whenever the store cannot create the staging area or cannot finalize it
\* (the final flush or the address read-back fails).
C20_FlushOrStatFailureRaises ==
    (BuildEnded /\ (\/ Failed(<<"mkdir", <<>>>>)
                    \/ Failed(<<"flush", <<>>>>)
                    \/ Failed(<<"stat", <<>>>>))) =>
        ret.exc = "RuntimeError" /\ ret.value = NoValue

\* C20 amended: build raises, and returns no address, exactly when the
\* store cannot create the staging area or the address read-back fails; a
\* failed final flush is a warning only, and the address read back after it
\* is returned.
C20_MkdirOrStatFailureRaises ==
    BuildEnded =>
        /\ (Failed(<<"mkdir", <<>>>>) \/ Failed(<<"stat", <<>>>>)) <=>
              (ret.exc = "RuntimeError" /\ ret.value = NoValue /\ pc = "raised")
        /\ (Failed(<<"flush", <<>>>>) /\ ~Failed(<<"stat", <<>>>>)) =>
              /\ pc = "built" /\ ret.exc = "none" /\ ret.value.kind = "dir"
              /\ Said(<<"Failed to flush", <<>>>>)

C20_Witness ==
    /\ pc = "built"
    /\ Failed(<<"flush", <<>>>>)
    /\ Said(<<"Failed to flush", <<>>>>)
    /\ Cardinality(ret.value.links) = NumNames

\* ------------------------------------------------------------ claims: extract-items
\* the root holds the manifest of kind xml_type of the identifier and the
\* command that reads it did not fail
Fetched(identifier, xml_type) ==
    /\ HasEntry(cids[1], <<XmlName(identifier, xml_type)>>)
    /\ ~CmdFailed(faults, <<"cat", <<XmlName(identifier, xml_type)>>>>)

\* the identifiers of which the root holds a manifest
Discovered == {i \in Identifiers : \E t \in {"meta", "files"} : HasEntry(cids[1], <<XmlName(i, t)>>)}

Complete == {i \in Discovered : Fetched(i, "meta") /\ Fetched(i, "files")}

\* the run got as far as the completeness validation
Validated ==
    /\ pc = "done"
    /\ Discovered # {}
    /\ ~CmdFailed(faults, <<"list_files", <<>>>>)
    /\ ~CmdFailed(faults, <<"ls", <<>>>>)

\* the lines of the error log of kind DATA_ERROR about the identifier
DataErrors(identifier) ==
    {k \in 1..Len(error_log) :
        error_log[k].kind = "DATA_ERROR" /\ error_log[k].item = <<identifier>>}

\* the addresses returned for the identifier
Outputs(identifier) ==
    {ret.value[k][2] : k \in {j \in 1..Len(ret.value) : ret.value[j][1] = identifier}}

\* C14: the completeness validation returns exactly the identifiers of which
\* every required manifest kind was fetched, each once; for each other
\* identifier exactly one DATA_ERROR line is logged and nothing is returned.
C14_CompletenessGate ==
    Validated =>
        /\ {valid_identifiers[k] : k \in 1..Len(valid_identifiers)} = Complete
        /\ Len(valid_identifiers) = Cardinality(Complete)
        /\ \A i \in Discovered \ Complete :
              /\ Cardinality(DataErrors(i)) = 1
              /\ Outputs(i) = {}

\* one identifier has its two manifests fetched and a directory returned,
\* another has one manifest fetched only
C14_Witness ==
    /\ Validated
    /\ \E i \in Complete : Outputs(i) # {}
    /\ \E i \in Discovered \ Complete :
          /\ Fetched(i, "meta") \/ Fetched(i, "files")
          /\ Cardinality(DataErrors(i)) = 1

\* the members the files.xml of the identifier declares by name
Declared(identifier) ==
    LET doc == Content(CidAt(cids[1], <<XmlName(identifier, "files")>>))
    IN  IF doc.xml = "ok" THEN {doc.names[k] : k \in 1..Len(doc.names)} \ {<<>>}
        ELSE {}

\* the path mapping of the tree: what the walk informed by the declared
\* names returns
TreeMapping == list_files_with_cids(cids[1], known_files, faults).files

Resolving(identifier) == {n \in Declared(identifier) : DictHas(TreeMapping, n)}

\* directory d holds each of the names at the address the mapping gives
\* it, and nothing that is not at or below one of them
Holds(d, members) ==
    /\ \A n \in members : HasEntry(d, n) /\ CidAt(d, n) = DictGet(TreeMapping, n)
    /\ \A leaf \in LeavesOf(d, <<>>) :
          \E n \in members :
              Len(n) <= Len(leaf[1]) /\ SubSeq(leaf[1], 1, Len(n)) = n

NoBuildFailure == \A c \in BuildCalls : ~CmdFailed(faults, c)

C15_WitnessNested ==
    /\ Validated
    /\ NoBuildFailure
    /\ \E i \in Complete :
          /\ \E n \in Resolving(i) : Len(n) > 1
          /\ Outputs(i) # {}

\* ------------------------------------------------------------ claims: the parallel fetch
\* the task's manifest is in the tree and the command that reads it
\* returned 0
FetchSucceeded(t) ==
    /\ DictHas(FilesWithCids.files, <<XmlName(futures[t].ident, futures[t].xml_type)>>)
    /\ ~CmdRaised(faults, <<"cat", <<XmlName(futures[t].ident, futures[t].xml_type)>>>>)
    /\ ~CmdFailed(faults, <<"cat", <<XmlName(futures[t].ident, futures[t].xml_type)>>>>)

\* C16: in the parallel fetch every submitted task has run to completion
\* when the fetch returns, whatever happened to the others, and each
\* manifest fetched with success is in the returned results, whatever the
\* order of completion.
C16_EveryFetchedManifestReturned ==
    pc = "done" =>
        \A t \in 1..Len(futures) :
            /\ futures[t].state = "done"
            /\ FetchSucceeded(t) =>
                  /\ DictHas(ret.value, futures[t].ident)
                  /\ DictHas(DictGet(ret.value, futures[t].ident), futures[t].xml_type)

\* ------------------------------------------------------------ claims: metadata
\* the store command that fetches the meta manifest of the identifier
FetchOf(identifier) == <<"cat", <<XmlName(identifier, "meta")>>>>

FetchedIn(h, identifier) ==
    \E k \in 1..Len(h.calls) : h.calls[k] = FetchOf(identifier)

InsertedIn(h, identifier) ==
    \E k \in 1..Len(h.inserts) : h.inserts[k] = identifier

\* C18: an identifier that has a row in the metadata table is never fetched
\* and never inserted again: after any sequence of invocations over the same
\* roots the table holds at most one row per identifier, and no process_cid
\* issued a fetch or an INSERT for an identifier that had a row when it
\* began.
C18_MetadataIdempotent ==
    /\ \A i, j \in 1..Len(db) : db[i].identifier = db[j].identifier => i = j
    /\ \A n \in 1..Len(history) :
          \A identifier \in history[n].stored :
              /\ ~FetchedIn(history[n], identifier)
              /\ ~InsertedIn(history[n], identifier)

\* a repeated invocation comes to a root that holds the manifest of an
\* identifier stored by the first one and that of an identifier not stored:
\* it fetches and inserts the second only
C18_Witness ==
    \E n \in (Len(cids) + 1)..Len(history) :
        \E i, j \in Identifiers :
            /\ i \in history[n].stored
            /\ HasEntry(cids[history[n].root], <<XmlName(i, "meta")>>)
            /\ j \notin history[n].stored
            /\ FetchedIn(history[n], j)
            /\ InsertedIn(history[n], j)
            /\ \E k \in 1..Len(db) : db[k].identifier = j

\* ------------------------------------------------------------ claims: the flush limit
\* C21: during the build, the number of copies applied to the staging area
\* since its last successful flush never reaches MFS_FLUSH_LIMIT, for any
\* mapping size and any pattern of copy or flush failures.
C21_UnflushedBelowLimit == mfs.unflushed < MFS_FLUSH_LIMIT

\* ------------------------------------------------------------ claims: the archive
Archive == ret.value.blocks

Given == {cids[k] : k \in 1..Len(cids)}

NoMismatch == \A k \in 0..MaxChildren : ~PutMismatch(faults, <<"car put-block", <<k>>>>)

ChildFailed(i) ==
    \/ CmdFailed(faults, <<"block get", <<i>>>>)
    \/ CmdFailed(faults, <<"car put-block", <<i>>>>)
    \/ PutMismatch(faults, <<"car put-block", <<i>>>>)

InArchive(i) == \E k \in 1..Len(Archive) : Archive[k].i = i

\* C23: during an export whose root block was written, a child block whose
\* fetch or write fails, or whose reported address differs from the
\* expected one, is absent from the archive; the export goes on and every
\* other child block is in the archive.
C23_FailedBlockSkipped ==
    (pc = "done" /\ ~ChildFailed(0)) =>
        \A i \in 1..(Len(cids) - 1) : InArchive(i) <=> ~ChildFailed(i)

\* ------------------------------------------------------------ claims: the commands
\* C24: a command exits with code 0 when at least one result was produced
\* and with code 1 when nothing could be produced (no input addresses, store
\* unreachable, no files or items found in any input); here for
\* extract-items, whose results are the rows it prints.
C24_ExitCodeTellsResult ==
    pc \in {"done", "exit 1"} => (pc = "done" <=> ret.value.rows # <<>>)

\* C25: everything a command writes to standard output is a resulting
\* address or a result row (with the header of the rows); the messages for
\* a member missing from the tree and for a failed directory build go to
\* standard error or the error log; here for extract-items.
C25_StdoutHoldsResultsOnly ==
    \A k \in 1..Len(stdout) :
        stdout[k][1] \in {"identifier,synthetic_cid", "row", "container"}

\* C30: in extract-items over any list of roots, when no store command
\* fails, every child address passed to the archive export is the target of
\* an entry of the container directory, and every result row printed has its
\* identifier mapped to its address in the container.
C30_ContainerHoldsEveryRow ==
    (pc = "done" /\ faults = {} /\ ret.value.rows # <<>>) =>
        /\ \A k \in 1..Len(ret.value.child_cids) :
              \E l \in ret.value.container.links : l[2] = ret.value.child_cids[k]
        /\ \A k \in 1..Len(ret.value.rows) :
              <<IdName(ret.value.rows[k][1]), ret.value.rows[k][2]>>
                  \in ret.value.container.links

\* ------------------------------------------------------------ claims: nothing lost
\* the walk returned a path at or below path p
Kept(p) == \E k \in DictKeys(ret.value) : IsPrefix(p, k)

\* C27: for every entry returned by a successful listing of a node, the
\* result of the walk contains that entry's own path or a path below it,
\* also when the listing of the entry fails after its probe succeeded.
C27_NoEntryLost ==
    pc = "done" =>
        \A p \in Paths \cup {<<>>} :
            Listed(p) =>
                \A l \in CidAt(cids[1], p).links : Kept(Append(p, l[1]))

\* the content of task t is in the returned results
Returned(t) ==
    /\ DictHas(ret.value, futures[t].ident)
    /\ DictHas(DictGet(ret.value, futures[t].ident), futures[t].xml_type)

\* an error record that names the manifest of task t is in the error log
Recorded(t) ==
    \E k \in 1..Len(error_log) :
        error_log[k].item = <<XmlName(futures[t].ident, futures[t].xml_type)>>

\* C28: when the parallel fetch returns, every submitted task is accounted
\* for: its content is in the returned results or an error record for it
\* is in the error log, under every interleaving of the workers.
C28_EveryTaskAccounted ==
    pc = "done" => \A t \in 1..Len(futures) : Returned(t) \/ Recorded(t)

\* the directory build returned holds item i of the given mapping
Contains(i) ==
    /\ HasEntry(ret.value, files_dict[i][1])
    /\ CidAt(ret.value, files_dict[i][1]) = files_dict[i][2]

\* C29: build returns an address only for a directory that contains every
\* entry of the given mapping, also when the copy of an entry into the
\* staging area fails.
C29_BuiltHoldsEveryEntry ==
    pc = "built" => \A i \in 1..Len(files_dict) : Contains(i)

\* ------------------------------------------------------------ claims: the order of the roots
\* the lists that hold the roots of the list given, in every order
Reordered(roots) ==
    {[i \in 1..Len(roots) |-> roots[f[i]]] :
        f \in {g \in [1..Len(roots) -> 1..Len(roots)] :
                  \A a, b \in 1..Len(roots) : g[a] = g[b] => a = b}}

\* the mapping merge hands to the directory builder for the roots in the order given
HandedFor(roots) == AsMap(merge_root_cids(roots, force_check_directories, faults).handed)

====
